---- MODULE Spec2Model ----
(***************************************************************************)
(* VibeBoard GPU worker: the ModelManager of gpu-worker/main.py (which     *)
(* models occupy accelerator memory) and the job dispatcher of             *)
(* gpu-worker/runpod_handler.py (process_job_async and the handlers it     *)
(* routes to).                                                             *)
(*                                                                         *)
(* Python strings are TLA+ strings; where the code inspects or builds one   *)
(* (model names, which _get_model_family searches for keywords) its        *)
(* characters are used.  A loaded object is identified by the number of    *)
(* the loader run that created it (its stamp); 0 stands for Python's None  *)
(* where an object is expected.                                            *)
(***************************************************************************)
EXTENDS Integers, Sequences, FiniteSets, TLC

\* ------------------------------------------------------------------ bounds

\* Loader runs (successful loads) in one behaviour; stamps are 1..MaxLoads.
MaxLoads == 3

\* Jobs that can be in flight at the same time.
NumJobs == 2

\* Jobs handed to process_job_async in one behaviour.
MaxJobs == 2

\* Parts a model id passed to _get_model_family is put together from.
MaxParts == 2

\* The most entries the directory given to process_folder holds.
MaxFiles == 3

\* ------------------------------------------------------------ model names
\* A Python string is a TLA+ string.  The strings the code takes apart or
\* puts together (model names and their parts) are listed here with their
\* characters; Chars and Str convert between a string and its characters.
Chars ==
    [ midas                    |-> <<"m","i","d","a","s">>,
      midas_processor          |-> <<"m","i","d","a","s","_","p","r","o","c","e","s","s","o","r">>,
      depth_anything           |-> <<"d","e","p","t","h","_","a","n","y","t","h","i","n","g">>,
      depth_anything_processor |-> <<"d","e","p","t","h","_","a","n","y","t","h","i","n","g","_","p","r","o","c","e","s","s","o","r">>,
      wan_t2v                  |-> <<"w","a","n","_","t","2","v">>,
      wan_i2v                  |-> <<"w","a","n","_","i","2","v">>,
      qwen_vl                  |-> <<"q","w","e","n","_","v","l">>,
      qwen_vl_processor        |-> <<"q","w","e","n","_","v","l","_","p","r","o","c","e","s","s","o","r">>,
      sam2                     |-> <<"s","a","m","2">>,
      sam2_processor           |-> <<"s","a","m","2","_","p","r","o","c","e","s","s","o","r">>,
      svi                      |-> <<"s","v","i">>,
      flux_schnell             |-> <<"f","l","u","x","_","s","c","h","n","e","l","l">>,
      flux_dev                 |-> <<"f","l","u","x","_","d","e","v">>,
      flux_pro                 |-> <<"f","l","u","x","_","p","r","o">>,
      sd35_large               |-> <<"s","d","3","5","_","l","a","r","g","e">>,
      ltx_video                |-> <<"l","t","x","_","v","i","d","e","o">>,
      ltx_video_i2v            |-> <<"l","t","x","_","v","i","d","e","o","_","i","2","v">>,
      realesrgan               |-> <<"r","e","a","l","e","s","r","g","a","n">>,
      rife                     |-> <<"r","i","f","e">>,
      _processor               |-> <<"_","p","r","o","c","e","s","s","o","r">>,
      flux_                    |-> <<"f","l","u","x","_">>,
      schnell                  |-> <<"s","c","h","n","e","l","l">>,
      dev                      |-> <<"d","e","v">>,
      pro                      |-> <<"p","r","o">> ]

\* The string with the given characters.
Str(chars) ==
    CHOOSE n \in DOMAIN Chars : Chars[n] = chars

\* Python's  a + b  on the listed strings.
Concat(a, b) ==
    Str(Chars[a] \o Chars[b])

\* Python's None where a model name is expected (current_model).
None ==
    "<None>"

\* The model ids ensure_model has a loader branch for (_load_model).
Catalog ==
    {"midas", "depth_anything", "wan_t2v", "wan_i2v", "qwen_vl", "sam2", "svi",
     "flux_schnell", "flux_dev", "sd35_large", "ltx_video"}

families_WithoutSd3 ==
    << [family |-> "depth", models |-> <<
           <<"m","i","d","a","s">>,
           <<"z","o","e","d","e","p","t","h">>,
           <<"d","e","p","t","h","_","a","n","y","t","h","i","n","g">> >>],
       [family |-> "focus", models |-> <<
           <<"l","e","a","r","n","2","r","e","f","o","c","u","s">>,
           <<"g","e","n","f","o","c","u","s">>,
           <<"d","i","f","f","c","a","m","e","r","a">> >>],
       [family |-> "edit", models |-> <<
           <<"q","w","e","n">>,
           <<"s","d","x","l","_","i","n","p","a","i","n","t">> >>],
       [family |-> "video", models |-> <<
           <<"w","a","n">>,
           <<"c","o","g","v","i","d","e","o">>,
           <<"l","t","x">>,
           <<"s","v","i">>,
           <<"s","t","a","b","l","e","_","v","i","d","e","o">> >>],
       [family |-> "segment", models |-> <<
           <<"s","a","m","2">>,
           <<"g","r","o","u","n","d","e","d","_","s","a","m">> >>],
       [family |-> "image", models |-> <<
           <<"f","l","u","x">>,
           <<"s","d","x","l">>,
           <<"h","i","d","r","e","a","m">> >>] >>

\* The family table of _get_model_family, in its insertion order.
families ==
    << [family |-> "depth", models |-> <<
           <<"m","i","d","a","s">>,
           <<"z","o","e","d","e","p","t","h">>,
           <<"d","e","p","t","h","_","a","n","y","t","h","i","n","g">> >>],
       [family |-> "focus", models |-> <<
           <<"l","e","a","r","n","2","r","e","f","o","c","u","s">>,
           <<"g","e","n","f","o","c","u","s">>,
           <<"d","i","f","f","c","a","m","e","r","a">> >>],
       [family |-> "edit", models |-> <<
           <<"q","w","e","n">>,
           <<"s","d","x","l","_","i","n","p","a","i","n","t">> >>],
       [family |-> "video", models |-> <<
           <<"w","a","n">>,
           <<"c","o","g","v","i","d","e","o">>,
           <<"l","t","x">>,
           <<"s","v","i">>,
           <<"s","t","a","b","l","e","_","v","i","d","e","o">> >>],
       [family |-> "segment", models |-> <<
           <<"s","a","m","2">>,
           <<"g","r","o","u","n","d","e","d","_","s","a","m">> >>],
       [family |-> "image", models |-> <<
           <<"f","l","u","x">>,
           <<"s","d","3">>,
           <<"s","d","x","l">>,
           <<"h","i","d","r","e","a","m">> >>] >>

\* The family _get_model_family returns for a falsy name (Python's None).
NoFamily ==
    "None"

\* ---------------------------------------------------------- string helpers

UpperChars ==
    <<"A","B","C","D","E","F","G","H","I","J","K","L","M",
      "N","O","P","Q","R","S","T","U","V","W","X","Y","Z">>
LowerChars ==
    <<"a","b","c","d","e","f","g","h","i","j","k","l","m",
      "n","o","p","q","r","s","t","u","v","w","x","y","z">>

\* str.lower(), character by character.
lower(s) ==
    [i \in 1..Len(s) |->
        IF \E k \in 1..Len(UpperChars) : UpperChars[k] = s[i]
        THEN LowerChars[CHOOSE k \in 1..Len(UpperChars) : UpperChars[k] = s[i]]
        ELSE s[i]]

\* Python's  m in s  for strings: m occurs in s as a contiguous substring.
IsSubstring(m, s) ==
    \E i \in 0..(Len(s) - Len(m)) : SubSeq(s, i + 1, i + Len(m)) = m

\* ------------------------------------------------------------ dictionaries

EmptyMap ==
    [k \in {} |-> 0]

\* d[k] = v
Put(d, k, v) ==
    [x \in (DOMAIN d) \cup {k} |-> IF x = k THEN v ELSE d[x]]

\* d.get(k): the entry, or None (0)
Get(d, k) ==
    IF k \in DOMAIN d THEN d[k] ELSE 0

\* Python's  a or b  on objects: a when a is truthy (a loaded object is).
PyOr(a, b) ==
    IF a # 0 THEN a ELSE b

Range(d) ==
    {d[k] : k \in DOMAIN d}

\* ------------------------------------------------------------ ModelManager
\* The manager is a record m = [models, pipelines, current_model, evicted];
\* evicted[h] counts how often clear_vram dropped the object with stamp h.

Stamps ==
    1..MaxLoads

ResidentStamps(m) ==
    Range(m.models) \cup Range(m.pipelines)

ResidentKeys(m) ==
    (DOMAIN m.models) \cup (DOMAIN m.pipelines)

\* What torch reports of the accelerator, in GB: total memory, allocated,
\* reserved.
DeviceStats ==
    {[total |-> 24, allocated |-> 0, cached |-> 0],
     [total |-> 24, allocated |-> 10, cached |-> 12]}

get_vram_usage_ReportsDevice(m, cuda, device) ==
    [m |-> m, ret |-> device]

\* get_vram_usage: zeros when torch.cuda.is_available() is false, else the
\* device's figures; the result is the manager afterwards and the dict.
get_vram_usage(m, cuda, device) ==
    [m   |-> m,
     ret |-> IF ~cuda THEN [total |-> 0, allocated |-> 0, cached |-> 0] ELSE device]

clear_vram_KeepsPipelines(m) ==
    [m EXCEPT !.models = EmptyMap,
              !.current_model = None,
              !.evicted = [h \in DOMAIN @ |->
                              IF h \in Range(m.models) THEN @[h] + 1 ELSE @[h]]]

clear_vram_KeepsCurrent(m) ==
    [m EXCEPT !.models = EmptyMap,
              !.pipelines = EmptyMap,
              !.evicted = [h \in DOMAIN @ |->
                              IF h \in ResidentStamps(m) THEN @[h] + 1 ELSE @[h]]]

clear_vram_KeepsModels(m) ==
    [m EXCEPT !.pipelines = EmptyMap,
              !.current_model = None,
              !.evicted = [h \in DOMAIN @ |->
                              IF h \in Range(m.pipelines) THEN @[h] + 1 ELSE @[h]]]

clear_vram(m) ==
    [m EXCEPT !.models = EmptyMap,
              !.pipelines = EmptyMap,
              !.current_model = None,
              !.evicted = [h \in DOMAIN @ |->
                              IF h \in ResidentStamps(m) THEN @[h] + 1 ELSE @[h]]]

FirstFamily_LastMatch(chars) ==
    LET name == lower(chars)
        hits == {i \in 1..Len(families) :
                   \E k \in 1..Len(families[i].models) :
                       IsSubstring(families[i].models[k], name)}
    IN  IF hits = {}
        THEN "other"
        ELSE families[CHOOSE i \in hits : \A j \in hits : i >= j].family

\* The loop of _get_model_family over families.items() for a name with the
\* given characters: the first family with a keyword in name.lower().
FirstFamily(chars) ==
    LET name == lower(chars)
        hits == {i \in 1..Len(families) :
                   \E k \in 1..Len(families[i].models) :
                       IsSubstring(families[i].models[k], name)}
    IN  IF hits = {}
        THEN "other"
        ELSE families[CHOOSE i \in hits : \A j \in hits : i <= j].family

_get_model_family(model_name) ==
    IF model_name = None \/ model_name = ""
    THEN NoFamily
    ELSE FirstFamily(Chars[model_name])

\* A model id given by its characters; kind "None" is Python's None.
IdNone ==
    [kind |-> "None", chars |-> <<>>]

IdStr(chars) ==
    [kind |-> "str", chars |-> chars]

\* _get_model_family called with such an id.
_get_model_family_of(id) ==
    IF id.kind = "None" \/ id.chars = <<>>
    THEN NoFamily
    ELSE FirstFamily(id.chars)

\* Model ids _load_model has no branch for and no family keyword occurs in.
OtherNames ==
    {"realesrgan", "rife"}

\* Every name a dictionary key or current_model can hold.
KnownNames ==
    Catalog \cup {Concat(n, "_processor") : n \in {"midas", "depth_anything", "qwen_vl", "sam2"}}
            \cup OtherNames
            \cup {"ltx_video_i2v", None}

lifespan_cleanup_NoRelease(m) ==
    m

\* lifespan after its yield: model_manager.clear_vram().
lifespan_cleanup(m) ==
    clear_vram(m)

\* _get_model_family tabulated once over KnownNames (the values are those the
\* function computes; the table only saves recomputing them in every state).
FamilyOf ==
    [n \in KnownNames |-> _get_model_family(n)]

\* Each loader builds its objects first (from_pretrained, .to(DEVICE),
\* enable_model_cpu_offload: any of them may raise) and stores them last, so
\* a run either raises with the manager untouched or stores every entry.
\* ok = the collaborator calls succeed; h = the stamp of the objects created.
LoadModels(m, ok, h, keys) ==
    IF ok
    THEN [m |-> [m EXCEPT !.models =
                    [x \in (DOMAIN @) \cup keys |-> IF x \in keys THEN h ELSE @[x]]],
          raised |-> FALSE]
    ELSE [m |-> m, raised |-> TRUE]

LoadPipeline(m, ok, h, key) ==
    IF ok
    THEN [m |-> [m EXCEPT !.pipelines = Put(@, key, h)], raised |-> FALSE]
    ELSE [m |-> m, raised |-> TRUE]

_load_midas(m, ok, h) ==
    LoadModels(m, ok, h, {"midas", "midas_processor"})

_load_depth_anything(m, ok, h) ==
    LoadModels(m, ok, h, {"depth_anything", "depth_anything_processor"})

_load_wan_t2v(m, ok, h) ==
    LoadPipeline(m, ok, h, "wan_t2v")

_load_wan_i2v(m, ok, h) ==
    LoadPipeline(m, ok, h, "wan_i2v")

_load_qwen_vl(m, ok, h) ==
    LoadModels(m, ok, h, {"qwen_vl", "qwen_vl_processor"})

_load_sam2(m, ok, h) ==
    LoadModels(m, ok, h, {"sam2", "sam2_processor"})

_load_svi(m, ok, h) ==
    LoadPipeline(m, ok, h, "svi")

_load_flux_schnell(m, ok, h) ==
    LoadPipeline(m, ok, h, "flux_schnell")

_load_flux_dev(m, ok, h) ==
    LoadPipeline(m, ok, h, "flux_dev")

_load_sd35_large(m, ok, h) ==
    LoadPipeline(m, ok, h, "sd35_large")

_load_ltx_video(m, ok, h) ==
    LoadPipeline(m, ok, h, "ltx_video")

_load_model_NoSam2Branch(m, model_name, ok, h) ==
    CASE model_name = "midas"          -> _load_midas(m, ok, h)
      [] model_name = "depth_anything" -> _load_depth_anything(m, ok, h)
      [] model_name = "wan_t2v"        -> _load_wan_t2v(m, ok, h)
      [] model_name = "wan_i2v"        -> _load_wan_i2v(m, ok, h)
      [] model_name = "qwen_vl"        -> _load_qwen_vl(m, ok, h)
      [] model_name = "svi"            -> _load_svi(m, ok, h)
      [] model_name = "flux_schnell"   -> _load_flux_schnell(m, ok, h)
      [] model_name = "flux_dev"       -> _load_flux_dev(m, ok, h)
      [] model_name = "sd35_large"     -> _load_sd35_large(m, ok, h)
      [] model_name = "ltx_video"      -> _load_ltx_video(m, ok, h)
      [] OTHER                       -> [m |-> m, raised |-> FALSE]

\* An unknown name only logs a warning: nothing is loaded, nothing raised.
_load_model(m, model_name, ok, h) ==
    CASE model_name = "midas"          -> _load_midas(m, ok, h)
      [] model_name = "depth_anything" -> _load_depth_anything(m, ok, h)
      [] model_name = "wan_t2v"        -> _load_wan_t2v(m, ok, h)
      [] model_name = "wan_i2v"        -> _load_wan_i2v(m, ok, h)
      [] model_name = "qwen_vl"        -> _load_qwen_vl(m, ok, h)
      [] model_name = "sam2"           -> _load_sam2(m, ok, h)
      [] model_name = "svi"            -> _load_svi(m, ok, h)
      [] model_name = "flux_schnell"   -> _load_flux_schnell(m, ok, h)
      [] model_name = "flux_dev"       -> _load_flux_dev(m, ok, h)
      [] model_name = "sd35_large"     -> _load_sd35_large(m, ok, h)
      [] model_name = "ltx_video"      -> _load_ltx_video(m, ok, h)
      [] OTHER                       -> [m |-> m, raised |-> FALSE]

\* ensure_model's result: the manager afterwards, whether the call raised,
\* the value returned (0 = None), and whether the loader was invoked.
ensure_model_NoEviction(m, model_name, ok, h) ==
    LET need == model_name \notin DOMAIN m.models
        ld   == _load_model(m, model_name, ok, h)
    IN  IF need /\ ld.raised
        THEN [m |-> ld.m, raised |-> TRUE, ret |-> 0, loaded |-> TRUE]
        ELSE LET m3 == [(IF need THEN ld.m ELSE m) EXCEPT !.current_model = model_name]
             IN  [m |-> m3, raised |-> FALSE, loaded |-> need,
                  ret |-> PyOr(Get(m3.models, model_name), Get(m3.pipelines, model_name))]

ensure_model_AssignsFirst(m, model_name, ok, h) ==
    LET model_family   == FamilyOf[model_name]
        current_family == IF m.current_model # None /\ m.current_model # ""
                          THEN FamilyOf[m.current_model]
                          ELSE NoFamily
        m1   == IF current_family # NoFamily /\ current_family # model_family
                THEN clear_vram(m)
                ELSE m
        m2   == [m1 EXCEPT !.current_model = model_name]
        need == model_name \notin DOMAIN m2.models
        ld   == _load_model(m2, model_name, ok, h)
    IN  IF need /\ ld.raised
        THEN [m |-> ld.m, raised |-> TRUE, ret |-> 0, loaded |-> TRUE]
        ELSE LET m3 == IF need THEN ld.m ELSE m2
             IN  [m |-> m3, raised |-> FALSE, loaded |-> need,
                  ret |-> PyOr(Get(m3.models, model_name), Get(m3.pipelines, model_name))]

\* ensure_model's test  current_family and current_family != model_family
SwitchingFamilies(m, model_name) ==
    LET model_family   == FamilyOf[model_name]
        current_family == IF m.current_model # None /\ m.current_model # ""
                          THEN FamilyOf[m.current_model]
                          ELSE NoFamily
    IN  current_family # NoFamily /\ current_family # model_family

ensure_model(m, model_name, ok, h) ==
    LET \* switching families clears VRAM first
        m1   == IF SwitchingFamilies(m, model_name)
                THEN clear_vram(m)
                ELSE m
        \* the residency test looks at models only, never at pipelines
        need == model_name \notin DOMAIN m1.models
        ld   == _load_model(m1, model_name, ok, h)
    IN  IF need /\ ld.raised
        THEN [m |-> ld.m, raised |-> TRUE, ret |-> 0, loaded |-> TRUE]
        ELSE LET m3 == [(IF need THEN ld.m ELSE m1) EXCEPT !.current_model = model_name]
             IN  [m |-> m3, raised |-> FALSE, loaded |-> need,
                  ret |-> PyOr(Get(m3.models, model_name), Get(m3.pipelines, model_name))]

\* ------------------------------------------------- requests and responses
\* A job's operation value as process_job_async sees it: a string, None (the
\* key is missing) or an unhashable JSON value (a list or an object).
OpStr(name) ==
    [kind |-> "str", value |-> name]

OpNone ==
    [kind |-> "None", value |-> "None"]

OpList ==
    [kind |-> "list", value |-> "[]"]

\* HANDLERS: operation name -> (handler_fn, request_model), in dict order.
HANDLERS ==
    << [operation |-> "rack_focus",      handler |-> "rack_focus",              request_model |-> "RackFocusRequest"],
       [operation |-> "lens_character",  handler |-> "lens_character",          request_model |-> "LensCharacterRequest"],
       [operation |-> "rescue_focus",    handler |-> "rescue_focus",            request_model |-> "FocusRescueRequest"],
       [operation |-> "director_edit",   handler |-> "director_edit",           request_model |-> "DirectorEditRequest"],
       [operation |-> "video_generate",  handler |-> "generate_video",          request_model |-> "VideoGenerationRequest"],
       [operation |-> "video_t2v",       handler |-> "generate_video",          request_model |-> "VideoGenerationRequest"],
       [operation |-> "video_i2v",       handler |-> "generate_video",          request_model |-> "VideoGenerationRequest"],
       [operation |-> "svi_generate",    handler |-> "generate_svi_video",      request_model |-> "SVIGenerationRequest"],
       [operation |-> "stable_video_infinity", handler |-> "generate_svi_video", request_model |-> "SVIGenerationRequest"],
       [operation |-> "video_svi",       handler |-> "generate_svi_video",      request_model |-> "SVIGenerationRequest"],
       [operation |-> "flux_generate",   handler |-> "generate_flux_image",     request_model |-> "FluxImageRequest"],
       [operation |-> "flux_schnell",    handler |-> "generate_flux_image",     request_model |-> "FluxImageRequest"],
       [operation |-> "flux_dev",        handler |-> "generate_flux_image",     request_model |-> "FluxImageRequest"],
       [operation |-> "image_flux",      handler |-> "generate_flux_image",     request_model |-> "FluxImageRequest"],
       [operation |-> "sd35_generate",   handler |-> "generate_sd35_image",     request_model |-> "SD35ImageRequest"],
       [operation |-> "sd35_large",      handler |-> "generate_sd35_image",     request_model |-> "SD35ImageRequest"],
       [operation |-> "image_sd35",      handler |-> "generate_sd35_image",     request_model |-> "SD35ImageRequest"],
       [operation |-> "ltx_generate",    handler |-> "generate_ltx_video",      request_model |-> "LTXVideoRequest"],
       [operation |-> "ltx_video",       handler |-> "generate_ltx_video",      request_model |-> "LTXVideoRequest"],
       [operation |-> "video_ltx",       handler |-> "generate_ltx_video",      request_model |-> "LTXVideoRequest"],
       [operation |-> "depth_anything",  handler |-> "generate_depth_anything", request_model |-> "DepthAnythingRequest"],
       [operation |-> "depth_anything_v2", handler |-> "generate_depth_anything", request_model |-> "DepthAnythingRequest"],
       [operation |-> "depth_estimate",  handler |-> "generate_depth_anything", request_model |-> "DepthAnythingRequest"],
       [operation |-> "sam2_segment",    handler |-> "generate_sam2_segment",   request_model |-> "SAM2SegmentRequest"],
       [operation |-> "sam2",            handler |-> "generate_sam2_segment",   request_model |-> "SAM2SegmentRequest"],
       [operation |-> "segment",         handler |-> "generate_sam2_segment",   request_model |-> "SAM2SegmentRequest"] >>

\* list(HANDLERS.keys())
HandlerKeys ==
    [i \in 1..Len(HANDLERS) |-> HANDLERS[i].operation]

\* operation in HANDLERS, for a hashable operation
InHandlers(operation) ==
    /\ operation.kind = "str"
    /\ \E i \in 1..Len(HANDLERS) : HANDLERS[i].operation = operation.value

\* HANDLERS[operation]
HandlerEntry_DevNameIsOwnHandler(operation) ==
    IF operation.value = "flux_dev"
    THEN [operation |-> "flux_dev", handler |-> "generate_sd35_image",
          request_model |-> "SD35ImageRequest"]
    ELSE HANDLERS[CHOOSE i \in 1..Len(HANDLERS) : HANDLERS[i].operation = operation.value]

HandlerEntry(operation) ==
    HANDLERS[CHOOSE i \in 1..Len(HANDLERS) : HANDLERS[i].operation = operation.value]

\* The pydantic request models: the fields without a default (required) and
\* the ge/le bounds of the numeric fields.  Numbers are in hundredths, so
\* that 0.1 is 10 and 256 is 25600.
Schema(request_model) ==
    CASE request_model = "RackFocusRequest" ->
            [required |-> {"image_url", "focus_point_start", "focus_point_end"},
             bounds |-> [blur_strength |-> <<10, 300>>]]
      [] request_model = "LensCharacterRequest" ->
            [required |-> {"image_url"},
             bounds |-> [aberration_strength |-> <<0, 100>>,
                         flare_intensity |-> <<0, 100>>,
                         vignette_strength |-> <<0, 100>>]]
      [] request_model = "FocusRescueRequest" ->
            [required |-> {"image_url"},
             bounds |-> [sharpness_target |-> <<0, 100>>]]
      [] request_model = "DirectorEditRequest" ->
            [required |-> {"image_url", "instruction"},
             bounds |-> [strength |-> <<10, 100>>]]
      [] request_model = "VideoGenerationRequest" ->
            [required |-> {"prompt"},
             bounds |-> [duration_seconds |-> <<100, 1000>>]]
      [] request_model = "SVIGenerationRequest" ->
            [required |-> {"prompt", "image_url"},
             bounds |-> [num_frames |-> <<100, 10000>>,
                         motion_bucket_id |-> <<100, 25500>>,
                         noise_aug_strength |-> <<0, 10>>,
                         num_inference_steps |-> <<100, 5000>>,
                         decode_chunk_size |-> <<100, 2500>>]]
      [] request_model = "FluxImageRequest" ->
            [required |-> {"prompt"},
             bounds |-> [width |-> <<25600, 204800>>,
                         height |-> <<25600, 204800>>,
                         num_inference_steps |-> <<100, 5000>>,
                         guidance_scale |-> <<0, 2000>>]]
      [] request_model = "SD35ImageRequest" ->
            [required |-> {"prompt"},
             bounds |-> [width |-> <<51200, 204800>>,
                         height |-> <<51200, 204800>>,
                         num_inference_steps |-> <<100, 5000>>,
                         guidance_scale |-> <<100, 2000>>]]
      [] request_model = "LTXVideoRequest" ->
            [required |-> {"prompt"},
             bounds |-> [width |-> <<25600, 128000>>,
                         height |-> <<25600, 72000>>,
                         num_frames |-> <<900, 12100>>,
                         num_inference_steps |-> <<100, 5000>>,
                         guidance_scale |-> <<100, 2000>>]]
      [] request_model = "DepthAnythingRequest" ->
            [required |-> {"image_url"}, bounds |-> EmptyMap]
      [] request_model = "SAM2SegmentRequest" ->
            [required |-> {"image_url"}, bounds |-> EmptyMap]

Validates_IgnoresBounds(request_model, params) ==
    /\ params.kind = "dict"
    /\ Schema(request_model).required \subseteq DOMAIN params.fields

\* request_model(**params) succeeds: params is a mapping, every required
\* field is given and every bounded field given is within its bounds.
Validates(request_model, params) ==
    /\ params.kind = "dict"
    /\ Schema(request_model).required \subseteq DOMAIN params.fields
    /\ \A f \in (DOMAIN params.fields) \cap (DOMAIN Schema(request_model).bounds) :
          /\ Schema(request_model).bounds[f][1] <= params.fields[f]
          /\ params.fields[f] <= Schema(request_model).bounds[f][2]

\* request.image_url is truthy (given and not the empty string)
HasImage(params) ==
    /\ "image_url" \in DOMAIN params.fields
    /\ params.fields["image_url"] # ""

\* request.model of a FluxImageRequest (default "schnell")
FluxModel(params) ==
    IF "model" \in DOMAIN params.fields THEN params.fields["model"] ELSE "schnell"

NoError ==
    [kind |-> "None", text |-> "None", operation |-> OpNone, available |-> <<>>]

\* str(e) of an exception
ErrorOf(text) ==
    [kind |-> "str", text |-> text, operation |-> OpNone, available |-> <<>>]

\* What process_job_async produced when no envelope was returned.
NoEnvelope ==
    [keys |-> {}, success |-> FALSE, output_url |-> "None", output_base64 |-> "None",
     metadata |-> "None", error |-> NoError, loaded_models |-> {}]

ProcessingResponseKeys ==
    {"success", "output_url", "output_base64", "processing_time_ms", "metadata", "error"}

\* ProcessingResponse(success=True, output_url=..., processing_time_ms=...,
\* metadata={...}).model_dump()
SuccessResponse(output_url) ==
    [keys |-> ProcessingResponseKeys, success |-> TRUE, output_url |-> output_url,
     output_base64 |-> "None", metadata |-> "info", error |-> NoError,
     loaded_models |-> {}]

\* ProcessingResponse(success=False, processing_time_ms=..., error=str(e),
\* metadata=...).model_dump(); rack_focus, lens_character, rescue_focus and
\* director_edit (and the endpoint estimate_depth) pass no metadata, the
\* other handlers pass the traceback.
FailureResponse(fn, text) ==
    [keys |-> ProcessingResponseKeys, success |-> FALSE, output_url |-> "None",
     output_base64 |-> "None",
     metadata |-> IF fn \in {"rack_focus", "lens_character", "rescue_focus", "director_edit",
                             "estimate_depth"}
                  THEN "None" ELSE "traceback",
     error |-> ErrorOf(text), loaded_models |-> {}]

\* The dict process_job_async returns from its own except clause.
JobFailedResponse(text) ==
    [keys |-> {"success", "error", "traceback"}, success |-> FALSE,
     output_url |-> "None", output_base64 |-> "None", metadata |-> "None",
     error |-> ErrorOf(text), loaded_models |-> {}]

unknown_operation_response_OmitsSpecials(operation) ==
    [keys |-> {"success", "error"}, success |-> FALSE,
     output_url |-> "None", output_base64 |-> "None", metadata |-> "None",
     error |-> [kind |-> "str", text |-> "Unknown operation: ", operation |-> operation,
                available |-> HandlerKeys],
     loaded_models |-> {}]

\* {"success": False, "error": f"Unknown operation: {operation}. Available:
\* {list(HANDLERS.keys()) + ['health', 'models', 'unload']}"}; the message is
\* kept as its parts: the literal prefix, the operation, the list.
unknown_operation_response(operation) ==
    [keys |-> {"success", "error"}, success |-> FALSE,
     output_url |-> "None", output_base64 |-> "None", metadata |-> "None",
     error |-> [kind |-> "str", text |-> "Unknown operation: ", operation |-> operation,
                available |-> HandlerKeys \o <<"health", "models", "unload">>],
     loaded_models |-> {}]

\* The dicts of the three special operations.
health_response_ModelsOnly(m) ==
    [keys |-> {"success", "status", "device", "gpu_available", "gpu_name",
               "gpu_memory_gb", "loaded_models"},
     success |-> TRUE, output_url |-> "None", output_base64 |-> "None",
     metadata |-> "None", error |-> NoError, loaded_models |-> DOMAIN m.models]

health_response(m) ==
    [keys |-> {"success", "status", "device", "gpu_available", "gpu_name",
               "gpu_memory_gb", "loaded_models"},
     success |-> TRUE, output_url |-> "None", output_base64 |-> "None",
     metadata |-> "None", error |-> NoError, loaded_models |-> ResidentKeys(m)]

models_response(m) ==
    [keys |-> {"success", "available", "loaded", "vram"},
     success |-> TRUE, output_url |-> "None", output_base64 |-> "None",
     metadata |-> "None", error |-> NoError, loaded_models |-> ResidentKeys(m)]

unload_response ==
    [keys |-> {"success", "vram"},
     success |-> TRUE, output_url |-> "None", output_base64 |-> "None",
     metadata |-> "None", error |-> NoError, loaded_models |-> {}]

\* ----------------------------------------------------------------- handlers
\* A handler is a coroutine.  It runs without interruption from one await to
\* the next; at  await fetch_image(...)  and  await upload_to_storage(...)
\* other jobs may run.  Each operator below is the code between two such
\* points and yields
\*   [m: the manager afterwards, used: stamps consumed by loads (0 or 1),
\*    job: the coroutine's frame (Idle when it has returned),
\*    done: it returned or raised, out: the envelope returned,
\*    raised: an exception left process_job_async].
\* loadOk, inferOk, fetchOk: whether the loader's, the inference and image
\* processing, and the HTTP collaborators succeed; msg is str(e) of the
\* exception a failing collaborator raises; h is the next stamp.

Idle ==
    [pc |-> "idle", fn |-> "none", model |-> None, pipe |-> 0]

\* suspended at an await, holding in `pipe` the pipeline object it read
Suspended(m, used, pc, fn, model, pipe) ==
    [m |-> m, used |-> used, done |-> FALSE, out |-> NoEnvelope, raised |-> FALSE,
     job |-> [pc |-> pc, fn |-> fn, model |-> model, pipe |-> pipe]]

Returned(m, used, out) ==
    [m |-> m, used |-> used, done |-> TRUE, out |-> out, raised |-> FALSE, job |-> Idle]

UsedBy(e) ==
    IF e.loaded /\ ~e.raised THEN 1 ELSE 0

\* model_manager.ensure_model(model), the read of the loaded entries, then
\* the inference call and the encoding of its output, up to the await of
\* upload_to_storage; any exception goes to the handler's except clause.
\* e is the result of the ensure_model call.
InferWith(e, fn, model, inferOk, msg) ==
    IF e.raised
    THEN Returned(e.m, 0, FailureResponse(fn, msg))
    ELSE IF ~inferOk
    THEN Returned(e.m, UsedBy(e), FailureResponse(fn, msg))
    ELSE Suspended(e.m, UsedBy(e), "upload", fn, model, e.ret)

EnsureAndInfer(fn, m, model, loadOk, inferOk, msg, h) ==
    InferWith(ensure_model(m, model, loadOk, h), fn, model, inferOk, msg)

\* model_manager.ensure_model(model); pipe = model_manager.pipelines[model];
\* then the await of fetch_image.
\* e is the result of the ensure_model call.
FetchWith(e, fn, model, msg) ==
    IF e.raised
    THEN Returned(e.m, 0, FailureResponse(fn, msg))
    ELSE Suspended(e.m, UsedBy(e), "fetch", fn, model, e.m.pipelines[model])

EnsureThenFetch(fn, m, model, loadOk, msg, h) ==
    FetchWith(ensure_model(m, model, loadOk, h), fn, model, msg)

\* rack_focus, lens_character, rescue_focus, generate_depth_anything and
\* generate_sam2_segment start by awaiting fetch_image.
rack_focus(m, params, loadOk, inferOk, msg, h) ==
    Suspended(m, 0, "fetch", "rack_focus", None, 0)

lens_character(m, params, loadOk, inferOk, msg, h) ==
    Suspended(m, 0, "fetch", "lens_character", None, 0)

rescue_focus(m, params, loadOk, inferOk, msg, h) ==
    Suspended(m, 0, "fetch", "rescue_focus", None, 0)

generate_depth_anything(m, params, loadOk, inferOk, msg, h) ==
    Suspended(m, 0, "fetch", "generate_depth_anything", None, 0)

generate_sam2_segment(m, params, loadOk, inferOk, msg, h) ==
    Suspended(m, 0, "fetch", "generate_sam2_segment", None, 0)

director_edit_UsesQwen(m, params, loadOk, inferOk, msg, h) ==
    EnsureAndInfer("director_edit", m, "qwen_vl", loadOk, inferOk, msg, h)

\* director_edit awaits nothing and loads nothing: success, output_url None.
director_edit(m, params, loadOk, inferOk, msg, h) ==
    Returned(m, 0, SuccessResponse("None"))

generate_video(m, params, loadOk, inferOk, msg, h) ==
    IF HasImage(params)
    THEN EnsureThenFetch("generate_video", m, "wan_i2v", loadOk, msg, h)
    ELSE EnsureAndInfer("generate_video", m, "wan_t2v", loadOk, inferOk, msg, h)

generate_svi_video(m, params, loadOk, inferOk, msg, h) ==
    IF ~HasImage(params)
    THEN Returned(m, 0, FailureResponse("generate_svi_video", "SVI requires an image_url"))
    ELSE EnsureThenFetch("generate_svi_video", m, "svi", loadOk, msg, h)

generate_flux_image(m, params, loadOk, inferOk, msg, h) ==
    LET model_name == Concat("flux_", FluxModel(params))
    IN  IF FluxModel(params) \notin {"schnell", "dev"}
        THEN Returned(m, 0, FailureResponse("generate_flux_image", "Invalid FLUX model"))
        ELSE EnsureAndInfer("generate_flux_image", m, model_name, loadOk, inferOk, msg, h)

generate_sd35_image(m, params, loadOk, inferOk, msg, h) ==
    EnsureAndInfer("generate_sd35_image", m, "sd35_large", loadOk, inferOk, msg, h)

\* generate_ltx_video ensures ltx_video first; with an image_url it then
\* awaits fetch_image, without one it runs the text-to-video pipeline.
generate_ltx_video(m, params, loadOk, inferOk, msg, h) ==
    IF HasImage(params)
    THEN EnsureThenFetch("generate_ltx_video", m, "ltx_video", loadOk, msg, h)
    ELSE EnsureAndInfer("generate_ltx_video", m, "ltx_video", loadOk, inferOk, msg, h)

\* The image-to-video branch of generate_ltx_video after fetch_image: the
\* handler itself loads LTXImageToVideoPipeline and writes it to
\* model_manager.pipelines["ltx_video_i2v"] if that key is absent.
generate_ltx_video_i2v(m, job, loadOk, inferOk, msg, h) ==
    LET need == "ltx_video_i2v" \notin DOMAIN m.pipelines
        m1   == IF need THEN [m EXCEPT !.pipelines = Put(@, "ltx_video_i2v", h)] ELSE m
        used == IF need THEN 1 ELSE 0
    IN  IF need /\ ~loadOk
        THEN Returned(m, 0, FailureResponse(job.fn, msg))
        ELSE IF ~inferOk
        THEN Returned(m1, used, FailureResponse(job.fn, msg))
        ELSE Suspended(m1, used, "upload", job.fn, "ltx_video_i2v", m1.pipelines["ltx_video_i2v"])

\* A handler resumed from  await fetch_image(...).
after_fetch(m, job, fetchOk, loadOk, inferOk, msg, h) ==
    IF ~fetchOk
    THEN Returned(m, 0, FailureResponse(job.fn, msg))
    ELSE CASE job.fn = "rack_focus" ->
                EnsureAndInfer(job.fn, m, "depth_anything", loadOk, inferOk, msg, h)
           [] job.fn = "generate_depth_anything" ->
                EnsureAndInfer(job.fn, m, "depth_anything", loadOk, inferOk, msg, h)
           [] job.fn = "generate_sam2_segment" ->
                EnsureAndInfer(job.fn, m, "sam2", loadOk, inferOk, msg, h)
           [] job.fn \in {"lens_character", "rescue_focus"} ->
                IF inferOk
                THEN Suspended(m, 0, "upload", job.fn, None, 0)
                ELSE Returned(m, 0, FailureResponse(job.fn, msg))
           [] job.fn \in {"generate_video", "generate_svi_video"} ->
                \* inference runs on the pipeline object read before the await
                IF inferOk
                THEN Suspended(m, 0, "upload", job.fn, job.model, job.pipe)
                ELSE Returned(m, 0, FailureResponse(job.fn, msg))
           [] job.fn = "generate_ltx_video" ->
                generate_ltx_video_i2v(m, job, loadOk, inferOk, msg, h)

\* upload_to_storage returns the public URL, or the base64 data URI when
\* storage is not configured or the upload fails; it never raises.  Either
\* string becomes output_url of the handler's success response.
upload_to_storage_NoFallback(storageOk) ==
    IF storageOk THEN "url" ELSE "None"

upload_to_storage(storageOk) ==
    IF storageOk THEN "url" ELSE "data_uri"

after_upload(m, job, storageOk) ==
    Returned(m, 0, SuccessResponse(upload_to_storage(storageOk)))

\* handler_fn(request) up to its first await or its return.
CallHandler(fn, m, params, loadOk, inferOk, msg, h) ==
    CASE fn = "rack_focus"              -> rack_focus(m, params, loadOk, inferOk, msg, h)
      [] fn = "lens_character"          -> lens_character(m, params, loadOk, inferOk, msg, h)
      [] fn = "rescue_focus"            -> rescue_focus(m, params, loadOk, inferOk, msg, h)
      [] fn = "director_edit"           -> director_edit(m, params, loadOk, inferOk, msg, h)
      [] fn = "generate_video"          -> generate_video(m, params, loadOk, inferOk, msg, h)
      [] fn = "generate_svi_video"      -> generate_svi_video(m, params, loadOk, inferOk, msg, h)
      [] fn = "generate_flux_image"     -> generate_flux_image(m, params, loadOk, inferOk, msg, h)
      [] fn = "generate_sd35_image"     -> generate_sd35_image(m, params, loadOk, inferOk, msg, h)
      [] fn = "generate_ltx_video"      -> generate_ltx_video(m, params, loadOk, inferOk, msg, h)
      [] fn = "generate_depth_anything" -> generate_depth_anything(m, params, loadOk, inferOk, msg, h)
      [] fn = "generate_sam2_segment"   -> generate_sam2_segment(m, params, loadOk, inferOk, msg, h)

process_job_async_ParamsFirst(m, operation, params, loadOk, inferOk, msg, h) ==
    IF params.kind # "dict"
    THEN Returned(m, 0, JobFailedResponse("argument after ** must be a mapping"))
            @@ [fn |-> "none"]
    ELSE IF operation = OpStr("health")
    THEN Returned(m, 0, health_response(m)) @@ [fn |-> "none"]
    ELSE IF operation = OpStr("models")
    THEN Returned(m, 0, models_response(m)) @@ [fn |-> "none"]
    ELSE IF operation = OpStr("unload")
    THEN Returned(clear_vram(m), 0, unload_response) @@ [fn |-> "none"]
    ELSE IF operation.kind = "list"
    THEN [Returned(m, 0, NoEnvelope) EXCEPT !.raised = TRUE] @@ [fn |-> "none"]
    ELSE IF ~InHandlers(operation)
    THEN Returned(m, 0, unknown_operation_response(operation)) @@ [fn |-> "none"]
    ELSE IF ~Validates(HandlerEntry(operation).request_model, params)
    THEN Returned(m, 0, JobFailedResponse("validation error")) @@ [fn |-> "none"]
    ELSE CallHandler(HandlerEntry(operation).handler, m, params, loadOk, inferOk, msg, h)
            @@ [fn |-> HandlerEntry(operation).handler]

\* process_job_async up to the handler's first await or to its return.  The
\* result adds  fn: the handler that was called ("none" if none was).
process_job_async(m, operation, params, loadOk, inferOk, msg, h) ==
    IF operation = OpStr("health")
    THEN Returned(m, 0, health_response(m)) @@ [fn |-> "none"]
    ELSE IF operation = OpStr("models")
    THEN Returned(m, 0, models_response(m)) @@ [fn |-> "none"]
    ELSE IF operation = OpStr("unload")
    THEN Returned(clear_vram(m), 0, unload_response) @@ [fn |-> "none"]
    ELSE IF operation.kind = "list"
    \* `operation not in HANDLERS` hashes operation: TypeError for a list or
    \* a dict, raised outside the try block
    THEN [Returned(m, 0, NoEnvelope) EXCEPT !.raised = TRUE] @@ [fn |-> "none"]
    ELSE IF ~InHandlers(operation)
    THEN Returned(m, 0, unknown_operation_response(operation)) @@ [fn |-> "none"]
    ELSE IF params.kind # "dict"
    \* request_model(**params) with params no mapping: TypeError, in the try
    THEN Returned(m, 0, JobFailedResponse("argument after ** must be a mapping"))
            @@ [fn |-> "none"]
    ELSE IF ~Validates(HandlerEntry(operation).request_model, params)
    \* pydantic ValidationError, in the try
    THEN Returned(m, 0, JobFailedResponse("validation error")) @@ [fn |-> "none"]
    ELSE CallHandler(HandlerEntry(operation).handler, m, params, loadOk, inferOk, msg, h)
            @@ [fn |-> HandlerEntry(operation).handler]

\* ---------------------------------------------------------- process_folder
\* scripts/process_faces.py.  A directory entry is its place in the listing,
\* the characters of its suffix, and whether processing it raises (the read,
\* rembg's remove, the decoding, the compositing or the save).

\* extensions = {'.jpg', '.jpeg', '.png', '.webp'}
extensions ==
    { <<".","j","p","g">>, <<".","j","p","e","g">>, <<".","p","n","g">>,
      <<".","w","e","b","p">> }

\* f.suffix.lower() in extensions
IsSupported(entry) ==
    lower(entry.suffix) \in extensions

\* files = [f for f in input_path.iterdir() if ...]
SupportedFiles(entries) ==
    SelectSeq(entries, IsSupported)

\* The run before anything happened: where it stands, whether an exception
\* left it, whether output_path.mkdir ran, the files the loop started on and
\* the files saved, both in order.
NoRun ==
    [pc |-> "idle", raised |-> FALSE, output_path |-> "None", made_dir |-> FALSE,
     attempted |-> <<>>, saved |-> <<>>]

\* The loop  for i, file_path in enumerate(files)  from position i on: each
\* iteration is wrapped in try/except Exception, which prints and goes on.
RECURSIVE process_files_StopsAtFailure(_, _, _)
process_files_StopsAtFailure(files, i, run) ==
    IF i > Len(files)
    THEN run
    ELSE IF files[i].fails
    THEN [run EXCEPT !.attempted = Append(@, files[i].place)]
    ELSE process_files_StopsAtFailure(files, i + 1,
             [run EXCEPT !.attempted = Append(@, files[i].place),
                         !.saved = Append(@, files[i].place)])

RECURSIVE process_files(_, _, _)
process_files(files, i, run) ==
    IF i > Len(files)
    THEN run
    ELSE IF files[i].fails
    THEN process_files(files, i + 1,
             [run EXCEPT !.attempted = Append(@, files[i].place)])
    ELSE process_files(files, i + 1,
             [run EXCEPT !.attempted = Append(@, files[i].place),
                         !.saved = Append(@, files[i].place)])

\* process_folder(input_dir, output_dir): importOk = `from rembg import
\* remove` does not raise ImportError; exists = input_path.exists();
\* mkdirOk = output_path.mkdir(parents=True, exist_ok=True) does not raise.
process_folder(importOk, exists, output_dir, mkdirOk, entries) ==
    IF ~importOk
    THEN [NoRun EXCEPT !.pc = "returned"]
    ELSE IF ~exists
    THEN [NoRun EXCEPT !.pc = "returned"]
    ELSE IF ~mkdirOk
    THEN [NoRun EXCEPT !.pc = "returned", !.raised = TRUE,
                       !.output_path = IF output_dir # "None" THEN output_dir
                                       ELSE "input_dir/Processed_Neutral"]
    ELSE process_files(SupportedFiles(entries), 1,
             [NoRun EXCEPT !.pc = "returned", !.made_dir = TRUE,
                           !.output_path = IF output_dir # "None" THEN output_dir
                                           ELSE "input_dir/Processed_Neutral"])

\* ------------------------------------------------------------------- state

VARIABLES
    models,         \* ModelManager.models: key -> stamp of the object
    pipelines,      \* ModelManager.pipelines: key -> stamp of the object
    current_model,  \* ModelManager.current_model
    evicted,        \* stamp -> number of times clear_vram dropped it
    loads,          \* successful loader runs so far (the last stamp used)
    last,           \* the most recent direct call (a ModelManager method, an
                    \* HTTP endpoint or a named job) and the state before it
    jobs,           \* slot -> frame of the process_job_async coroutine in it
    dispatched,     \* number of jobs handed to process_job_async so far
    response,       \* the most recent outcome of process_job_async
    history,        \* the jobs processed one after another, oldest first
    returned,       \* the most recent direct call of a read-only method (its
                    \* name, argument and return value), or the seed of the
                    \* most recent generation job and the use made of it
    folder          \* the run of process_folder (scripts/process_faces.py)

vars ==
    <<models, pipelines, current_model, evicted, loads, last, jobs, dispatched,
      response, history, returned, folder>>

\* The slots in which jobs are in flight at the same time.
Jobs ==
    1..NumJobs

\* The manager as the record the operators above work on.
Mgr ==
    [models |-> models, pipelines |-> pipelines,
     current_model |-> current_model, evicted |-> evicted]

NoCall ==
    [op |-> "none", name |-> None, ok |-> TRUE, raised |-> FALSE, loaded |-> FALSE,
     ret |-> 0, prev |-> None,
     pre |-> [models |-> EmptyMap, pipelines |-> EmptyMap, current_model |-> None]]

\* The part of a manager record that is program state.
Residency(m) ==
    [models |-> m.models, pipelines |-> m.pipelines, current_model |-> m.current_model]

\* No job has completed yet.
NoResponse ==
    [raised |-> FALSE, envelope |-> NoEnvelope]

\* No read-only method called yet.
NoReturn ==
    [fn |-> "none", arg |-> IdNone, ret |-> "unset"]

\* ModelManager.__init__; no job received.
Init ==
    /\ models = EmptyMap
    /\ pipelines = EmptyMap
    /\ current_model = None
    /\ evicted = [h \in Stamps |-> 0]
    /\ loads = 0
    /\ last = NoCall
    /\ jobs = [j \in Jobs |-> Idle]
    /\ dispatched = 0
    /\ response = NoResponse
    /\ history = <<>>
    /\ returned = NoReturn
    /\ folder = NoRun

SetMgr(m) ==
    /\ models' = m.models
    /\ pipelines' = m.pipelines
    /\ current_model' = m.current_model
    /\ evicted' = m.evicted

\* The name of the call before this one when that was a successful
\* ensure_model, else None.
PrevEnsured ==
    IF last.op = "ensure_model" /\ ~last.raised THEN last.name ELSE None

\* One call model_manager.ensure_model(model_name), run to completion; ok says
\* whether the loader's collaborators succeed should the loader be invoked.
\* r is the result of the ensure_model call.
Ensured(r, model_name, ok) ==
    /\ SetMgr(r.m)
    /\ loads' = loads + UsedBy(r)
    /\ last' = [op |-> "ensure_model", name |-> model_name, ok |-> ok,
                raised |-> r.raised, loaded |-> r.loaded, ret |-> r.ret,
                prev |-> PrevEnsured, pre |-> Residency(Mgr)]
    /\ UNCHANGED <<jobs, dispatched, response, history, returned, folder>>

EnsureModel(model_name, ok) ==
    /\ loads < MaxLoads
    /\ Ensured(ensure_model(Mgr, model_name, ok, loads + 1), model_name, ok)

\* One call model_manager.clear_vram().
ClearVram ==
    /\ SetMgr(clear_vram(Mgr))
    /\ loads' = loads
    /\ last' = [op |-> "clear_vram", name |-> None, ok |-> TRUE, raised |-> FALSE,
                loaded |-> FALSE, ret |-> 0, prev |-> PrevEnsured,
                pre |-> Residency(Mgr)]
    /\ UNCHANGED <<jobs, dispatched, response, history, returned, folder>>

\* The manager driven directly, one call at a time.
NextManager ==
    \/ \E model_name \in Catalog, ok \in BOOLEAN : EnsureModel(model_name, ok)
    \/ ClearVram

SpecManager ==
    Init /\ [][NextManager]_vars

\* The manager called with any model id, also ids it has no loader for.
NextManagerAnyName ==
    \/ \E model_name \in Catalog \cup OtherNames, ok \in BOOLEAN :
          EnsureModel(model_name, ok)
    \/ ClearVram

SpecManagerAnyName ==
    Init /\ [][NextManagerAnyName]_vars

\* One direct call model_manager.get_vram_usage(); r is its result.
VramUsageReturned(r, cuda) ==
    /\ SetMgr(r.m)
    /\ returned' = [fn |-> "get_vram_usage", arg |-> [cuda |-> cuda], ret |-> r.ret]
    /\ last' = [op |-> "get_vram_usage", name |-> None, ok |-> TRUE, raised |-> FALSE,
                loaded |-> FALSE, ret |-> 0, prev |-> PrevEnsured,
                pre |-> Residency(Mgr)]
    /\ UNCHANGED <<loads, jobs, dispatched, response, history, folder>>

GetVramUsage(cuda, device) ==
    VramUsageReturned(get_vram_usage(Mgr, cuda, device), cuda)

\* The manager driven directly, with its memory figures read in between.
NextManagerUsage ==
    \/ \E model_name \in Catalog, ok \in BOOLEAN : EnsureModel(model_name, ok)
    \/ ClearVram
    \/ \E cuda \in BOOLEAN, device \in DeviceStats : GetVramUsage(cuda, device)

SpecManagerUsage ==
    Init /\ [][NextManagerUsage]_vars

\* The service is up: the cleanup of lifespan has not run.
Serving ==
    last.op # "lifespan"

\* Graceful shutdown: the code of lifespan after its yield runs, once.
LifespanCleanup ==
    /\ Serving
    /\ SetMgr(lifespan_cleanup(Mgr))
    /\ loads' = loads
    /\ last' = [op |-> "lifespan", name |-> None, ok |-> TRUE, raised |-> FALSE,
                loaded |-> FALSE, ret |-> 0, prev |-> PrevEnsured,
                pre |-> Residency(Mgr)]
    /\ UNCHANGED <<jobs, dispatched, response, history, returned, folder>>

\* The manager driven directly until the service shuts down.
NextLifespan ==
    \/ \E model_name \in Catalog, ok \in BOOLEAN : Serving /\ EnsureModel(model_name, ok)
    \/ Serving /\ ClearVram
    \/ LifespanCleanup

SpecLifespan ==
    Init /\ [][NextLifespan]_vars

\* ------------------------------------------------------- family resolution

\* The parts ids are put together from: keywords of the families, in lower
\* and upper case, parts that make a keyword only together ("sdxl" and
\* "_inpaint"), and parts no keyword occurs in.
Parts ==
    {<<"m","i","d","a","s">>, <<"Z","o","e","D","e","p","t","h">>,
     <<"g","e","n","f","o","c","u","s">>, <<"Q","w","e","n">>,
     <<"w","a","n">>, <<"s","a","m","2">>, <<"F","L","U","X">>,
     <<"s","d","x","l">>, <<"_","i","n","p","a","i","n","t">>,
     <<"_","v","2">>, <<"r","i","f","e">>}

RECURSIVE Joined(_)
\* The parts of ps one after the other.
Joined(ps) ==
    IF ps = <<>> THEN <<>> ELSE Head(ps) \o Joined(Tail(ps))

\* None, the empty id, and every id of up to MaxParts parts.
Ids ==
    {IdNone} \cup {IdStr(Joined(ps)) : ps \in UNION {[1..n -> Parts] : n \in 0..MaxParts}}

\* One direct call model_manager._get_model_family(id); the function keeps
\* no state, so a behaviour makes one call.
GetModelFamily(id) ==
    /\ returned.fn = "none"
    /\ returned' = [fn |-> "_get_model_family", arg |-> id,
                    ret |-> _get_model_family_of(id)]
    /\ UNCHANGED <<models, pipelines, current_model, evicted, loads, last, jobs,
                   dispatched, response, history, folder>>

NextFamily ==
    \E id \in Ids : GetModelFamily(id)

SpecFamily ==
    Init /\ [][NextFamily]_vars

\* ------------------------------------------------------------ the dispatcher

\* The params values jobs carry: not a mapping, the empty mapping, and
\* mappings of request fields (numbers in hundredths).
ParamsNone ==
    [kind |-> "None", fields |-> EmptyMap]

ParamsDict(fields) ==
    [kind |-> "dict", fields |-> fields]

TextFields ==
    [prompt |-> "a prompt", instruction |-> "an instruction",
     focus_point_start |-> "(0.2, 0.2)", focus_point_end |-> "(0.8, 0.8)"]

ImageFields ==
    TextFields @@ [image_url |-> "http://host/image.png"]

OutOfRangeFields ==
    ImageFields @@ [strength |-> 500, width |-> 1000000]

FluxFields(model) ==
    TextFields @@ [model |-> model]

\* The operation names tried with both a text-only and an image request: the
\* first key HANDLERS has for each handler.
PrimaryOperations ==
    {"rack_focus", "lens_character", "rescue_focus", "director_edit",
     "video_generate", "svi_generate", "flux_generate", "sd35_generate",
     "ltx_generate", "depth_anything", "sam2_segment"}

\* The jobs that arrive, as <<operation, params>>: the special operations,
\* operations that are no key of HANDLERS (a name, a missing operation, a
\* list), every handler with a text-only and with an image request, and
\* requests that fail validation or are rejected inside their handler.
JobInputs ==
    {<<OpStr(o), ParamsDict(EmptyMap)>> : o \in {"health", "models", "unload", "unknown_op"}}
        \cup {<<OpStr("health"), ParamsNone>>,
              <<OpNone, ParamsDict(EmptyMap)>>,
              <<OpList, ParamsDict(EmptyMap)>>}
        \cup {<<OpStr(o), ParamsDict(f)>> : o \in PrimaryOperations, f \in {TextFields, ImageFields}}
        \cup {<<OpStr("director_edit"), ParamsDict(OutOfRangeFields)>>,
              <<OpStr("flux_generate"), ParamsDict(OutOfRangeFields)>>,
              <<OpStr("rack_focus"), ParamsNone>>,
              <<OpStr("depth_estimate"), ParamsDict(EmptyMap)>>,
              <<OpStr("video_i2v"), ParamsDict(TextFields @@ [image_url |-> ""])>>,
              <<OpStr("video_svi"), ParamsDict(TextFields @@ [image_url |-> ""])>>,
              <<OpStr("flux_dev"), ParamsDict(TextFields)>>,
              <<OpStr("image_flux"), ParamsDict(FluxFields("dev"))>>,
              <<OpStr("flux_schnell"), ParamsDict(FluxFields("pro"))>>}

\* The outcome of process_job_async for a job, recorded when the coroutine
\* returns or raises: whether an exception left it, and the envelope.
ResponseOf(r, raised) ==
    [raised |-> raised, envelope |-> r.out]

\* The coroutine in slot j runs the step with result r: the manager and the
\* frame are updated, and the outcome is recorded if the coroutine ended.
Step(j, r) ==
    /\ r.used = 0 \/ loads < MaxLoads
    /\ SetMgr(r.m)
    /\ loads' = loads + r.used
    /\ jobs' = [jobs EXCEPT ![j] = r.job]
    /\ response' = IF r.done THEN ResponseOf(r, r.raised) ELSE response

\* A job arrives and process_job_async runs, in the lowest free slot, up to
\* its handler's first await or to its return.
Dispatch(operation, params, loadOk, inferOk, msg) ==
    /\ dispatched < MaxJobs
    /\ \E j \in Jobs :
          /\ jobs[j].pc = "idle"
          /\ \A i \in Jobs : i < j => jobs[i].pc # "idle"
          /\ Step(j, process_job_async(Mgr, operation, params, loadOk, inferOk, msg, loads + 1))
    /\ dispatched' = dispatched + 1
    /\ UNCHANGED <<last, history, returned, folder>>

\* fetch_image returns (or raises) in job j and its handler runs on to the
\* await of upload_to_storage or to its return.
FetchReturns(j, fetchOk, loadOk, inferOk, msg) ==
    /\ jobs[j].pc = "fetch"
    /\ Step(j, after_fetch(Mgr, jobs[j], fetchOk, loadOk, inferOk, msg, loads + 1))
    /\ UNCHANGED <<dispatched, last, history, returned, folder>>

\* upload_to_storage returns in job j; the handler builds its success
\* response and process_job_async returns result.model_dump().
UploadReturns(j, storageOk) ==
    /\ jobs[j].pc = "upload"
    /\ Step(j, after_upload(Mgr, jobs[j], storageOk))
    /\ UNCHANGED <<dispatched, last, history, returned, folder>>

\* What the collaborators of one step do: all succeed, or the first one the
\* step reaches that fails (the image download, then the loader, then the
\* inference and image processing); a step ends at its first exception.
\* msg is str(e) of that exception: some text, or the empty string (as for
\* httpx.ReadTimeout or any exception constructed without arguments).
Collaborators ==
    {[fetchOk |-> TRUE, loadOk |-> TRUE, inferOk |-> TRUE, msg |-> ""]}
        \cup {[fetchOk |-> FALSE, loadOk |-> TRUE, inferOk |-> TRUE, msg |-> t] :
                 t \in {"", "fetch failed"}}
        \cup {[fetchOk |-> TRUE, loadOk |-> FALSE, inferOk |-> TRUE, msg |-> t] :
                 t \in {"", "load failed"}}
        \cup {[fetchOk |-> TRUE, loadOk |-> TRUE, inferOk |-> FALSE, msg |-> t] :
                 t \in {"", "inference failed"}}

Next ==
    \/ \E q \in JobInputs, c \in {d \in Collaborators : d.fetchOk} :
          Dispatch(q[1], q[2], c.loadOk, c.inferOk, c.msg)
    \/ \E j \in Jobs, c \in Collaborators :
          FetchReturns(j, c.fetchOk, c.loadOk, c.inferOk, c.msg)
    \/ \E j \in Jobs, storageOk \in BOOLEAN : UploadReturns(j, storageOk)

\* Jobs dispatched through process_job_async, interleaved at their awaits.
Spec ==
    Init /\ [][Next]_vars

\* Every awaited collaborator call eventually returns or raises, and the
\* event loop then resumes the coroutine that awaits it.
AwaitsReturn(j) ==
    /\ WF_vars(\E c \in Collaborators :
                  FetchReturns(j, c.fetchOk, c.loadOk, c.inferOk, c.msg))
    /\ WF_vars(\E storageOk \in BOOLEAN : UploadReturns(j, storageOk))

\* Spec with every await returning.
SpecFair ==
    Spec /\ \A j \in Jobs : AwaitsReturn(j)

\* --------------------------------------------------- one job after another

\* The handler resumed from  await upload_to_storage(...)  when r left it
\* suspended there; used is what the steps before r loaded and fn the
\* handler that was called.
Uploaded(r, used, fn, storageOk) ==
    IF r.done
    THEN [r EXCEPT !.used = @ + used] @@ [fn |-> fn]
    ELSE [after_upload(r.m, r.job, storageOk) EXCEPT !.used = r.used + used]
            @@ [fn |-> fn]

\* The coroutine that produced r run on through its awaits to its return.
Resumed(r, c, h) ==
    IF r.done
    THEN r
    ELSE IF r.job.pc = "fetch"
    THEN Uploaded(after_fetch(r.m, r.job, c.fetchOk, c.loadOk, c.inferOk, c.msg,
                              h + r.used),
                  r.used, r.fn, c.storageOk)
    ELSE Uploaded(r, 0, r.fn, c.storageOk)

\* await process_job_async(job) with no other job in flight: the coroutine
\* runs from its start to its return.
run_job(m, operation, params, c, h) ==
    Resumed(process_job_async(m, operation, params, c.loadOk, c.inferOk, c.msg, h),
            c, h)

SpecialOperations ==
    {"health", "models", "unload"}

\* What history keeps of a job: the special operation or the handler that
\* ran ("none" when the job ended before any), and whether the envelope
\* returned says success.
HistoryEntry(r, operation) ==
    [kind    |-> IF operation.kind = "str" /\ operation.value \in SpecialOperations
                 THEN operation.value ELSE r.fn,
     success |-> ~r.raised /\ r.out.success]

\* r is the result of the whole job.
Processed(r, operation) ==
    /\ loads + r.used <= MaxLoads
    /\ SetMgr(r.m)
    /\ loads' = loads + r.used
    /\ response' = ResponseOf(r, r.raised)
    /\ history' = Append(history, HistoryEntry(r, operation))
    /\ dispatched' = dispatched + 1
    /\ UNCHANGED <<last, jobs, returned, folder>>

\* handler(job): one job is processed from its arrival to its envelope
\* before the next one is taken.
ProcessJob(operation, params, c) ==
    /\ dispatched < MaxJobs
    /\ Processed(run_job(Mgr, operation, params, c, loads + 1), operation)

\* What the collaborators of one whole job do: as in Collaborators with the
\* upload to storage succeeding, or all succeed but the upload.
JobCollaborators ==
    {c @@ [storageOk |-> TRUE] : c \in Collaborators}
        \cup {[fetchOk |-> TRUE, loadOk |-> TRUE, inferOk |-> TRUE, msg |-> "",
               storageOk |-> FALSE]}

NextSequential ==
    \E q \in JobInputs, c \in JobCollaborators : ProcessJob(q[1], q[2], c)

\* Jobs dispatched through process_job_async one at a time.
SpecSequential ==
    Init /\ [][NextSequential]_vars

\* ------------------------------------------------------ the HTTP endpoints
\* The FastAPI routes call the same handlers with a request that FastAPI has
\* validated.  Below, one request runs from its start to its response; c is
\* what the collaborators do (as in JobCollaborators) and h the next stamp.

\* POST /depth/estimate: the upload is read and decoded (readOk), then the
\* form field model selects the branch; a model that is neither
\* depth_anything nor midas raises ValueError before any ensure_model.
estimate_depth_DefaultBranch(m, model, readOk, c, h) ==
    IF ~readOk
    THEN Returned(m, 0, FailureResponse("estimate_depth", c.msg))
            @@ [fn |-> "estimate_depth"]
    ELSE IF model = "midas"
    THEN Uploaded(EnsureAndInfer("estimate_depth", m, "midas",
                                 c.loadOk, c.inferOk, c.msg, h),
                  0, "estimate_depth", c.storageOk)
    ELSE Uploaded(EnsureAndInfer("estimate_depth", m, "depth_anything",
                                 c.loadOk, c.inferOk, c.msg, h),
                  0, "estimate_depth", c.storageOk)

estimate_depth(m, model, readOk, c, h) ==
    IF ~readOk
    THEN Returned(m, 0, FailureResponse("estimate_depth", c.msg))
            @@ [fn |-> "estimate_depth"]
    ELSE IF model = "depth_anything"
    THEN Uploaded(EnsureAndInfer("estimate_depth", m, "depth_anything",
                                 c.loadOk, c.inferOk, c.msg, h),
                  0, "estimate_depth", c.storageOk)
    ELSE IF model = "midas"
    THEN Uploaded(EnsureAndInfer("estimate_depth", m, "midas",
                                 c.loadOk, c.inferOk, c.msg, h),
                  0, "estimate_depth", c.storageOk)
    ELSE Returned(m, 0, FailureResponse("estimate_depth", "Unknown depth model"))
            @@ [fn |-> "estimate_depth"]

\* POST /image/flux with a validated FluxImageRequest.
post_image_flux(m, params, c, h) ==
    Uploaded(generate_flux_image(m, params, c.loadOk, c.inferOk, c.msg, h),
             0, "generate_flux_image", c.storageOk)

\* The values of the form field model that arrive.
DepthModels ==
    {"depth_anything", "midas", "zoedepth", ""}

\* The values of FluxImageRequest.model that arrive (any str validates).
FluxModels ==
    {"schnell", "dev", "pro", "Schnell"}

\* r is the result of the whole request to endpoint fn with model choice name.
Responded(r, fn, name) ==
    /\ loads + r.used <= MaxLoads
    /\ SetMgr(r.m)
    /\ loads' = loads + r.used
    /\ response' = ResponseOf(r, r.raised)
    /\ last' = [op |-> fn, name |-> name, ok |-> TRUE, raised |-> r.raised,
                loaded |-> r.used > 0, ret |-> 0, prev |-> PrevEnsured,
                pre |-> Residency(Mgr)]
    /\ UNCHANGED <<jobs, history, folder>>

PostDepthEstimate(model, readOk, c) ==
    /\ Responded(estimate_depth(Mgr, model, readOk, c, loads + 1), "estimate_depth", model)
    /\ UNCHANGED <<dispatched, returned>>

PostImageFlux(model, c) ==
    /\ Responded(post_image_flux(Mgr, ParamsDict(FluxFields(model)), c, loads + 1),
                 "generate_flux_image", model)
    /\ UNCHANGED <<dispatched, returned>>

NextHttp ==
    \/ \E model \in DepthModels, readOk \in BOOLEAN, c \in JobCollaborators :
          PostDepthEstimate(model, readOk, c)
    \/ \E model \in FluxModels, c \in JobCollaborators : PostImageFlux(model, c)

\* Requests to /depth/estimate and /image/flux, one at a time.
SpecHttp ==
    Init /\ [][NextHttp]_vars

\* ---------------------------------------------------- operation name aliases
\* list(HANDLERS.keys()) as a set.
HandlerOperations ==
    {HANDLERS[i].operation : i \in 1..Len(HANDLERS)}

\* Jobs under every key of HANDLERS, each with a text-only request, an
\* image request and a request that names the FLUX variant dev.
AliasJobs ==
    {<<OpStr(o), ParamsDict(f)>> :
        o \in HandlerOperations, f \in {TextFields, ImageFields, FluxFields("dev")}}

\* handler(job) for a job of AliasJobs, processed to its envelope; last keeps
\* the operation name and request.model.
ProcessAlias(operation, params, c) ==
    /\ dispatched < MaxJobs
    /\ Responded(run_job(Mgr, operation, params, c, loads + 1),
                 operation.value, FluxModel(params))
    /\ dispatched' = dispatched + 1
    /\ UNCHANGED returned

\* What the collaborators of such a job do: all succeed, or one of them
\* fails (the exception carries no text).
AliasCollaborators ==
    {c \in JobCollaborators : c.msg = ""}

NextAlias ==
    \E q \in AliasJobs, c \in AliasCollaborators : ProcessAlias(q[1], q[2], c)

\* Jobs under all operation names, one at a time.
SpecAlias ==
    Init /\ [][NextAlias]_vars

\* ------------------------------------------------------------ the catalog
\* "available" of the models operation: id and family of each entry, in
\* order.
AvailableModels ==
    << [id |-> "flux_schnell",   family |-> "image"],
       [id |-> "flux_dev",       family |-> "image"],
       [id |-> "sd35_large",     family |-> "image"],
       [id |-> "midas",          family |-> "depth"],
       [id |-> "depth_anything", family |-> "depth"],
       [id |-> "wan_t2v",        family |-> "video"],
       [id |-> "wan_i2v",        family |-> "video"],
       [id |-> "svi",            family |-> "video"],
       [id |-> "ltx_video",      family |-> "video"],
       [id |-> "qwen_vl",        family |-> "edit"],
       [id |-> "sam2",           family |-> "segment"] >>

\* "available" of GET /models (list_models): id and family of each entry.
ListModelsAvailable ==
    << [id |-> "flux_schnell",   family |-> "image"],
       [id |-> "flux_dev",       family |-> "image"],
       [id |-> "sd35_large",     family |-> "image"],
       [id |-> "midas",          family |-> "depth"],
       [id |-> "depth_anything", family |-> "depth"],
       [id |-> "wan_t2v",        family |-> "video"],
       [id |-> "wan_i2v",        family |-> "video"],
       [id |-> "svi",            family |-> "video"],
       [id |-> "ltx_video",      family |-> "video"],
       [id |-> "qwen_vl",        family |-> "edit"],
       [id |-> "sam2",           family |-> "segment"] >>

\* The ids of AvailableModels.
AvailableIds ==
    {AvailableModels[i].id : i \in 1..Len(AvailableModels)}

\* The manager driven directly, and _get_model_family called with a
\* catalog id or with a key that is resident.
NextCatalog ==
    \/ \E model_name \in AvailableIds, ok \in BOOLEAN : EnsureModel(model_name, ok)
    \/ \E k \in AvailableIds \cup ResidentKeys(Mgr) : GetModelFamily(IdStr(Chars[k]))

SpecCatalog ==
    Init /\ [][NextCatalog]_vars

\* ------------------------------------------------------------------ seeds
\* request.seed: Optional[int].
SeedNone ==
    [kind |-> "None", value |-> 0]

SeedInt(n) ==
    [kind |-> "int", value |-> n]

\* A torch.Generator that manual_seed was never called on.
Unseeded ==
    [kind |-> "default", value |-> 0]

\* request.seed of a request (default None)
SeedOf(params) ==
    IF "seed" \in DOMAIN params.fields THEN params.fields["seed"] ELSE SeedNone

\* `if request.seed:` -- None and 0 are both falsy
SeedIsTruthy(seed) ==
    seed.kind = "int" /\ seed.value # 0

\* generate_svi_video, generate_flux_image, generate_sd35_image and
\* generate_ltx_video: a truthy seed seeds the generator, otherwise
\* request.seed is replaced by the number drawn with torch.randint and the
\* generator is seeded with that.  The result is what the generator was
\* seeded with and request.seed afterwards, which the metadata reports.
seed_or_random(seed, drawn) ==
    IF SeedIsTruthy(seed)
    THEN [generator |-> seed, seed |-> seed]
    ELSE [generator |-> SeedInt(drawn), seed |-> SeedInt(drawn)]

\* generate_video: a truthy seed seeds the generator, otherwise the
\* generator stays as constructed and request.seed as given.
seed_if_given(seed) ==
    IF SeedIsTruthy(seed)
    THEN [generator |-> seed, seed |-> seed]
    ELSE [generator |-> Unseeded, seed |-> seed]

\* The generator setup of handler fn.
SeedUse(fn, seed, drawn) ==
    IF fn = "generate_video" THEN seed_if_given(seed) ELSE seed_or_random(seed, drawn)

\* The seeds requests carry, and the numbers torch.randint draws.
Seeds ==
    {SeedNone, SeedInt(0), SeedInt(1), SeedInt(42)}

Drawn ==
    {0, 7}

\* Jobs for the five handlers that set up a generator, with a seed.
SeededJobs ==
    {<<OpStr(o), ParamsDict(f @@ [seed |-> s])>> :
        o \in {"video_generate", "flux_generate", "sd35_generate", "ltx_generate"},
        f \in {TextFields}, s \in Seeds}
      \cup {<<OpStr("svi_generate"), ParamsDict(ImageFields @@ [seed |-> s])>> : s \in Seeds}

\* What a finished job r says of its seed: the seed given and, when the
\* envelope is a success, the generator's seed and metadata["seed"].
SeedReturn(r, seed, drawn) ==
    [fn  |-> r.fn, arg |-> seed,
     ret |-> IF r.out.success THEN SeedUse(r.fn, seed, drawn) ELSE [generator |-> Unseeded, seed |-> SeedNone],
     success |-> r.out.success]

JobEnded(r, operation, seed, drawn) ==
    /\ Responded(r, operation.value, None)
    /\ returned' = SeedReturn(r, seed, drawn)

\* handler(job) for a job of SeededJobs, processed to its envelope.
ProcessSeeded(operation, params, drawn, c) ==
    /\ dispatched < MaxJobs
    /\ JobEnded(run_job(Mgr, operation, params, c, loads + 1), operation,
                SeedOf(params), drawn)
    /\ dispatched' = dispatched + 1

NextSeeded ==
    \E q \in SeededJobs, drawn \in Drawn, c \in AliasCollaborators :
        ProcessSeeded(q[1], q[2], drawn, c)

\* Seeded generation jobs, one at a time.
SpecSeeded ==
    Init /\ [][NextSeeded]_vars

\* ------------------------------------------- generate_flux_image's settings
\* An int field of a request (fields hold hundredths), or its default.
IntField(params, name, default) ==
    IF name \in DOMAIN params.fields THEN params.fields[name] \div 100 ELSE default

\* What generate_flux_image passes to the pipeline: num_steps is capped at 4
\* for schnell, width and height are (x // 8) * 8.
flux_settings_NoCap(params) ==
    [num_steps |-> IntField(params, "num_inference_steps", 4),
     width     |-> (IntField(params, "width", 1024) \div 8) * 8,
     height    |-> (IntField(params, "height", 1024) \div 8) * 8]

flux_settings(params) ==
    [num_steps |-> IF FluxModel(params) = "schnell"
                   THEN IF IntField(params, "num_inference_steps", 4) <= 4
                        THEN IntField(params, "num_inference_steps", 4)
                        ELSE 4
                   ELSE IntField(params, "num_inference_steps", 4),
     width     |-> (IntField(params, "width", 1024) \div 8) * 8,
     height    |-> (IntField(params, "height", 1024) \div 8) * 8]

\* The bounds FluxImageRequest puts on a field, as whole numbers.
FluxBound(name) ==
    [lo |-> Schema("FluxImageRequest").bounds[name][1] \div 100,
     hi |-> Schema("FluxImageRequest").bounds[name][2] \div 100]

\* Requests for generate_flux_image: every width from below the schema's
\* lower bound to above its upper bound, heights and step counts at, between
\* and beyond their bounds, both variants.
FluxRequests ==
    {ParamsDict(TextFields @@ [model |-> v, width |-> 100 * w, height |-> 100 * h,
                               num_inference_steps |-> 100 * n]) :
        v \in {"schnell", "dev"},
        w \in (FluxBound("width").lo - 8)..(FluxBound("width").hi + 8),
        h \in {FluxBound("height").lo - 1, FluxBound("height").lo, 1023,
               FluxBound("height").hi, FluxBound("height").hi + 1},
        n \in {FluxBound("num_inference_steps").lo - 1, FluxBound("num_inference_steps").lo,
               4, 5, FluxBound("num_inference_steps").hi,
               FluxBound("num_inference_steps").hi + 1}}

\* generate_flux_image reaches its pipeline call with a validated request
\* for a supported variant; returned keeps the request and what was passed.
FluxSettings(params) ==
    /\ Validates("FluxImageRequest", params)
    /\ FluxModel(params) \in {"schnell", "dev"}
    /\ returned' = [fn |-> "generate_flux_image", arg |-> params,
                    ret |-> flux_settings(params)]
    /\ UNCHANGED <<models, pipelines, current_model, evicted, loads, last, jobs,
                   dispatched, response, history, folder>>

\* The computation keeps no state, so a behaviour holds one request.
NextFluxSettings ==
    /\ returned.fn = "none"
    /\ \E params \in FluxRequests : FluxSettings(params)

SpecFluxSettings ==
    Init /\ [][NextFluxSettings]_vars

\* ------------------------------------------------- process_folder is called
\* The suffixes of the entries of the input directory.
Suffixes ==
    { <<".","j","p","g">>, <<".","P","N","G">>, <<".","t","x","t">> }

\* The listings input_path.iterdir() gives: up to MaxFiles entries.
Listings ==
    UNION {[1..n -> Suffixes \X BOOLEAN] : n \in 0..MaxFiles}

\* The entries of a listing.
Entries(listing) ==
    [i \in 1..Len(listing) |->
        [place |-> i, suffix |-> listing[i][1], fails |-> listing[i][2]]]

\* One call process_folder(input_dir, output_dir), run to its end; folder
\* keeps the run together with what it was given.
ProcessFolder(importOk, exists, output_dir, mkdirOk, listing) ==
    /\ folder' = process_folder(importOk, exists, output_dir, mkdirOk, Entries(listing))
                 @@ [importOk |-> importOk, exists |-> exists, entries |-> Entries(listing)]
    /\ UNCHANGED <<models, pipelines, current_model, evicted, loads, last, jobs,
                   dispatched, response, history, returned>>

\* The script calls process_folder once.
NextFolder ==
    /\ folder.pc = "idle"
    /\ \E importOk \in BOOLEAN, exists \in BOOLEAN, output_dir \in {"None", "out"},
          mkdirOk \in BOOLEAN, listing \in Listings :
          ProcessFolder(importOk, exists, output_dir, mkdirOk, listing)

SpecFolder ==
    Init /\ [][NextFolder]_vars

\* ------------------------------------------------- properties of the manager

\* The keys the loader of model_name records, found by running it on an
\* empty manager.
LoaderKeys(model_name) ==
    ResidentKeys(_load_model(
        [models |-> EmptyMap, pipelines |-> EmptyMap, current_model |-> None,
         evicted |-> [h \in Stamps |-> 0]], model_name, TRUE, 1).m)

\* The last call was an ensure_model that changed family: a model of another
\* family was current when it was issued.
LastSwitchedFamily ==
    /\ last.op = "ensure_model"
    /\ last.pre.current_model # None
    /\ FamilyOf[last.pre.current_model] # FamilyOf[last.name]

\* C1: after any sequence of ensure_model calls (catalog ids, loaders that
\* succeed or raise) and clear_vram calls made one at a time, either models
\* and pipelines are empty and current_model is None, or every key of
\* models and pipelines resolves under _get_model_family to the family of
\* current_model.
C1_SingleFamilyResident ==
    \/ /\ models = EmptyMap
       /\ pipelines = EmptyMap
       /\ current_model = None
    \/ /\ ResidentKeys(Mgr) # {}
       /\ current_model # None
       /\ \A k \in ResidentKeys(Mgr) : FamilyOf[k] = FamilyOf[current_model]

\* C1 witness: an ensure_model that switched family and loaded its model.
C1_Witness ==
    /\ LastSwitchedFamily
    /\ ~last.raised
    /\ ResidentKeys(Mgr) # {}

\* C3 (as claimed): an ensure_model(id) for an id that is resident, in models
\* or in pipelines, does not invoke the loader and returns the object that
\* was resident.
C3_LazyLoadOncePerResidency ==
    (last.op = "ensure_model" /\ last.name \in ResidentKeys(last.pre))
        => /\ ~last.loaded
           /\ ~last.raised
           /\ last.ret = PyOr(Get(last.pre.models, last.name),
                              Get(last.pre.pipelines, last.name))

\* C4: when a successful ensure_model(a) is followed by a successful
\* ensure_model(b) of another family, the resident entries are exactly those
\* b's loader records, all created by this call, and every object resident
\* before the call was evicted exactly once.
C4_EvictionOnSwitch ==
    (/\ last.op = "ensure_model"
     /\ ~last.raised
     /\ last.prev # None
     /\ FamilyOf[last.prev] # FamilyOf[last.name])
        => /\ ResidentKeys(Mgr) = LoaderKeys(last.name)
           /\ ResidentStamps(Mgr) = {loads}
           /\ ResidentStamps(last.pre) # {}
           /\ loads \notin ResidentStamps(last.pre)
           /\ \A h \in ResidentStamps(last.pre) : evicted[h] = 1

\* C4 witness: two successful ensure_model calls in a row, of two families.
C4_Witness ==
    /\ last.op = "ensure_model"
    /\ ~last.raised
    /\ last.prev # None
    /\ FamilyOf[last.prev] # FamilyOf[last.name]

\* C5: when ensure_model(id) returns normally for a catalog id, id is a key of
\* models or pipelines, the value returned is the object stored under id (not
\* None), and current_model is of id's family.
C5_EnsureGuarantee ==
    (last.op = "ensure_model" /\ ~last.raised)
        => /\ last.name \in ResidentKeys(Mgr)
           /\ last.ret \in Stamps
           /\ last.ret \in {Get(models, last.name), Get(pipelines, last.name)}
           /\ FamilyOf[current_model] = FamilyOf[last.name]

\* C5 witness: a successful ensure_model of a model kept in models (with its
\* processor) that followed a successful one of a model kept in pipelines.
C5_Witness ==
    /\ last.op = "ensure_model"
    /\ ~last.raised
    /\ last.name \in DOMAIN models
    /\ last.prev # None
    /\ last.prev \in DOMAIN last.pre.pipelines

\* C6 (as claimed): when the loader raises during ensure_model(id), neither
\* id nor its processor entry is in models or pipelines afterwards, and
\* current_model is not id.
C6_NoEntryAfterFailedLoad ==
    (last.op = "ensure_model" /\ last.raised)
        => /\ last.name \notin ResidentKeys(Mgr)
           /\ LoaderKeys(last.name) \cap ResidentKeys(Mgr) = {}
           /\ current_model # last.name

\* C7 (as claimed): when the loader raises during ensure_model(id), models,
\* pipelines and current_model are what they were before the call.
C7_RollbackToPreCall ==
    (last.op = "ensure_model" /\ last.raised)
        => Residency(Mgr) = last.pre

\* C7 (amended): when the loader raises during ensure_model(id), the state is
\* what it was before the call if current_model was None or of id's family,
\* and is empty (no models, no pipelines, current_model None) if
\* current_model was of another family.
C7_RollbackOrEmpty ==
    (last.op = "ensure_model" /\ last.raised)
        => IF LastSwitchedFamily
           THEN Residency(Mgr) = [models |-> EmptyMap, pipelines |-> EmptyMap,
                                  current_model |-> None]
           ELSE Residency(Mgr) = last.pre

\* C7 witness: a loader raised in a call that switched family while entries
\* of the other family were resident.
C7_Witness ==
    /\ last.op = "ensure_model"
    /\ last.raised
    /\ LastSwitchedFamily
    /\ ResidentKeys(last.pre) # {}

\* ---------------------------------------------- properties of the dispatcher

\* C2 (as claimed): under any interleaving of in-flight jobs, all entries of
\* models and pipelines are of one model family.
C2_OneFamilyUnderInterleaving ==
    \A k1, k2 \in ResidentKeys(Mgr) : FamilyOf[k1] = FamilyOf[k2]

\* C8 (as claimed): while a job is suspended at the await between its
\* ensure_model call and its inference call, the model it ensured is
\* resident.
C8_ResidentUntilInference ==
    \A j \in Jobs :
        (jobs[j].pc = "fetch" /\ jobs[j].model # None)
            => jobs[j].model \in ResidentKeys(Mgr)

\* C9 (as claimed): no exception leaves process_job_async, whatever the
\* operation and params values of the job and whatever its collaborators do.
C9_NoExceptionEscapes ==
    ~response.raised

\* The jobs whose operation is a string that is no key of HANDLERS and none
\* of health, models, unload.
UnknownOperationJobs ==
    {q \in JobInputs : /\ q[1].kind = "str"
                       /\ q[1].value \notin {"health", "models", "unload"}
                       /\ ~InHandlers(q[1])}

\* The envelope process_job_async produced is the one of its unknown-operation
\* branch (the only one with exactly the keys success and error), for an
\* operation that is a string.
UnknownOperationReturned ==
    /\ response.envelope.keys = {"success", "error"}
    /\ response.envelope.error.operation.kind = "str"

\* C10 (as claimed): the response to an unknown operation string has
\* success false and an error message that starts 'unknown operation: '.
C10_UnknownOperationAsClaimed ==
    UnknownOperationReturned
        => /\ response.envelope.success = FALSE
           /\ response.envelope.error.text = "unknown operation: "

\* The operations process_job_async accepts: the keys of HANDLERS and the
\* three special operations.
ValidOperations ==
    {HANDLERS[i].operation : i \in 1..Len(HANDLERS)} \cup {"health", "models", "unload"}

\* r is the outcome the unknown-operation branch must have for `operation`
\* when the manager was m: success false; the message 'Unknown operation: ',
\* the operation, and a list naming every key of HANDLERS and health, models
\* and unload; nothing raised, no handler called, m unchanged.
UnknownOperationOutcome(r, m, operation) ==
    /\ r.done
    /\ ~r.raised
    /\ r.fn = "none"
    /\ Residency(r.m) = Residency(m)
    /\ r.out.keys = {"success", "error"}
    /\ r.out.success = FALSE
    /\ r.out.error.kind = "str"
    /\ r.out.error.text = "Unknown operation: "
    /\ r.out.error.operation = operation
    /\ ValidOperations \subseteq Range(r.out.error.available)

\* C10 (amended): for an operation string that is no key of HANDLERS and none
\* of health, models, unload, process_job_async returns success false with
\* the error 'Unknown operation: <op>. Available: [...]' whose list holds the
\* keys of HANDLERS and health, models, unload; it calls no handler and
\* leaves models, pipelines and current_model as they were.  This holds of
\* the call in every reachable state, and of every such envelope returned.
C10_UnknownOperationResponse ==
    /\ \A q \in UnknownOperationJobs, c \in Collaborators :
          UnknownOperationOutcome(
              process_job_async(Mgr, q[1], q[2], c.loadOk, c.inferOk, c.msg, loads + 1),
              Mgr, q[1])
    /\ UnknownOperationReturned
          => /\ ~response.raised
             /\ response.envelope.success = FALSE
             /\ response.envelope.error.text = "Unknown operation: "
             /\ ValidOperations \subseteq Range(response.envelope.error.available)

\* C10 witness: an unknown operation was answered while a model was resident
\* and no job was in flight.
C10_Witness ==
    /\ UnknownOperationReturned
    /\ response.envelope.error.operation = OpStr("unknown_op")
    /\ ResidentKeys(Mgr) # {}
    /\ \A j \in Jobs : jobs[j].pc = "idle"

\* The jobs for a registered operation whose params are a mapping that
\* violates the request schema: a required field is missing, or a bounded
\* field is out of its range.
SchemaViolatingJobs ==
    {q \in JobInputs :
        /\ InHandlers(q[1])
        /\ q[2].kind = "dict"
        /\ \/ \E f \in Schema(HandlerEntry(q[1]).request_model).required :
                 f \notin DOMAIN q[2].fields
           \/ \E f \in (DOMAIN q[2].fields)
                        \cap (DOMAIN Schema(HandlerEntry(q[1]).request_model).bounds) :
                 \/ q[2].fields[f] < Schema(HandlerEntry(q[1]).request_model).bounds[f][1]
                 \/ q[2].fields[f] > Schema(HandlerEntry(q[1]).request_model).bounds[f][2]}

\* r is a failure envelope returned without a handler call, a load or any
\* change of the manager m.
RejectedBeforeHandler(r, m) ==
    /\ r.done
    /\ ~r.raised
    /\ r.fn = "none"
    /\ r.used = 0
    /\ r.m = m
    /\ r.out.success = FALSE
    /\ r.out.error.kind = "str"
    /\ r.out.error.text # ""

\* C11: for a registered operation whose params violate the request schema
\* (missing required field, out-of-range value), process_job_async returns
\* a failure envelope, calls neither the handler nor ensure_model and leaves
\* models, pipelines and current_model unchanged; this holds of the call in
\* every reachable state, and every validation-failure envelope returned
\* has success false.
C11_ValidationBeforeExecution ==
    /\ \A q \in SchemaViolatingJobs, c \in Collaborators :
          RejectedBeforeHandler(
              process_job_async(Mgr, q[1], q[2], c.loadOk, c.inferOk, c.msg, loads + 1),
              Mgr)
    /\ response.envelope.error.text = "validation error"
          => /\ ~response.raised
             /\ response.envelope.success = FALSE

\* C11 witness: a validation failure was returned while a model was
\* resident and no job was in flight.
C11_Witness ==
    /\ response.envelope.error.text = "validation error"
    /\ ResidentKeys(Mgr) # {}
    /\ \A j \in Jobs : jobs[j].pc = "idle"

\* C12: every envelope process_job_async returns, on the success path and on
\* every failure path, contains a processing_time_ms field.
C12_ProcessingTimeInEveryEnvelope ==
    response.envelope.keys # {} => "processing_time_ms" \in response.envelope.keys

\* C13: in every envelope process_job_async returns, success false goes with
\* an error that is a non-empty string, and success true with no error.
C13_ErrorIffFailure ==
    response.envelope.keys # {} =>
        IF response.envelope.success
        THEN response.envelope.error = NoError
        ELSE /\ response.envelope.error.kind = "str"
             /\ response.envelope.error.text # ""

\* C14: every success envelope produced by a registered operation handler
\* has output_url or output_base64 set.
C14_SuccessCarriesOutput ==
    (/\ response.envelope.keys = ProcessingResponseKeys
     /\ response.envelope.success)
        => \/ response.envelope.output_url # "None"
           \/ response.envelope.output_base64 # "None"

\* ---------------------------------------- properties of the special operations

\* The params values tried with the special operations: no mapping, the
\* empty mapping, a mapping of fields no schema would accept.
SpecialParams ==
    {ParamsNone, ParamsDict(EmptyMap), ParamsDict(OutOfRangeFields)}

\* r is a success envelope, returned and not raised.
ReturnsSuccess(r) ==
    /\ r.done
    /\ ~r.raised
    /\ r.out.success = TRUE

\* C15: health, models and unload return success true for any params value
\* and in any residency state, also in states reached after earlier jobs
\* failed: the call succeeds in every reachable state, and every special
\* operation processed so far succeeded.
C15_SpecialOperationsAlwaysSucceed ==
    /\ \A o \in SpecialOperations, p \in SpecialParams, c \in JobCollaborators :
          ReturnsSuccess(run_job(Mgr, OpStr(o), p, c, loads + 1))
    /\ \A i \in 1..Len(history) :
          history[i].kind \in SpecialOperations => history[i].success

\* C15 witness: a handler failed and left its model resident, and the
\* special operation processed next returned success.
C15_Witness ==
    /\ Len(history) = 2
    /\ history[1].kind \notin SpecialOperations \cup {"none"}
    /\ ~history[1].success
    /\ history[2].kind \in SpecialOperations
    /\ history[2].success
    /\ response.envelope.success = TRUE
    /\ ResidentKeys(Mgr) # {}

\* r is the result of a call that left the manager m untouched and reports
\* as loaded exactly the keys of models and pipelines of m.
ReportsResidency(r, m) ==
    /\ r.done
    /\ r.used = 0
    /\ r.m = m
    /\ r.out.loaded_models = (DOMAIN m.models) \cup (DOMAIN m.pipelines)

\* C16: dispatching health or models leaves models, pipelines and
\* current_model unchanged, and the loaded list reported equals exactly the
\* keys of models and pipelines at the time of the call (no key is in both,
\* so the list has no duplicates).
C16_HealthAndModelsReadOnly ==
    /\ \A o \in {"health", "models"}, p \in SpecialParams, c \in JobCollaborators :
          ReportsResidency(run_job(Mgr, OpStr(o), p, c, loads + 1), Mgr)
    /\ (DOMAIN models) \cap (DOMAIN pipelines) = {}
    /\ (Len(history) > 0 /\ history[Len(history)].kind \in {"health", "models"})
          => response.envelope.loaded_models = ResidentKeys(Mgr)

\* C16 witness: health or models was processed after a job that loaded two
\* entries, and reported both.
C16_Witness ==
    /\ Len(history) = 2
    /\ history[2].kind \in {"health", "models"}
    /\ Cardinality(ResidentKeys(Mgr)) = 2
    /\ response.envelope.loaded_models = ResidentKeys(Mgr)

\* r is the result of an unload that emptied the manager, and a health call
\* on the manager it left reports nothing loaded.
UnloadsAll(r, h) ==
    /\ ReturnsSuccess(r)
    /\ r.m.models = EmptyMap
    /\ r.m.pipelines = EmptyMap
    /\ r.m.current_model = None
    /\ process_job_async(r.m, OpStr("health"), ParamsDict(EmptyMap), TRUE, TRUE, "", h)
           .out.loaded_models = {}

\* C17: from any residency state, dispatching unload leaves models and
\* pipelines empty and current_model None, and a health dispatched
\* immediately afterwards reports an empty loaded list.
C17_UnloadEmptiesResidency ==
    /\ \A p \in SpecialParams :
          UnloadsAll(process_job_async(Mgr, OpStr("unload"), p, TRUE, TRUE, "", loads + 1),
                     loads + 1)
    /\ (Len(history) > 0 /\ history[Len(history)].kind = "unload")
          => /\ Residency(Mgr) = [models |-> EmptyMap, pipelines |-> EmptyMap,
                                  current_model |-> None]
             /\ response.envelope.success = TRUE

\* C17 witness: unload was processed right after a job that had loaded
\* entries, and dropped them.
C17_Witness ==
    /\ Len(history) = 2
    /\ history[1].success
    /\ history[2].kind = "unload"
    /\ \E h \in Stamps : evicted[h] > 0
    /\ ResidentKeys(Mgr) = {}
    /\ current_model = None

\* The state of a manager that holds nothing.
EmptyResidency ==
    [models |-> EmptyMap, pipelines |-> EmptyMap, current_model |-> None]

\* C18: clear_vram from any state yields the empty state (models = {},
\* pipelines = {}, current_model = None) without raising, and a second call
\* right after it leaves that empty state unchanged and does not raise.
C18_ClearVramIdempotent ==
    /\ Residency(clear_vram(Mgr)) = EmptyResidency
    /\ Residency(clear_vram(clear_vram(Mgr))) = Residency(clear_vram(Mgr))
    /\ last.op = "clear_vram"
          => /\ ~last.raised
             /\ Residency(Mgr) = EmptyResidency
             /\ clear_vram(Mgr) = Mgr

\* C18 witness: clear_vram was called on a manager holding two entries and
\* a current model.
C18_Witness ==
    /\ last.op = "clear_vram"
    /\ Cardinality(ResidentKeys(last.pre)) = 2
    /\ last.pre.current_model # None
    /\ Residency(Mgr) = EmptyResidency

\* ------------------------------------------ properties of one job after another

\* The model a handler works with: the name it passes to ensure_model (for
\* generate_video and generate_flux_image one of the two names, which share
\* a family), for director_edit the model its docstring names, Qwen-VL (the
\* handler itself ensures nothing), and None for lens_character and
\* rescue_focus, which use no model.
HandlerModel(fn) ==
    CASE fn \in {"rack_focus", "generate_depth_anything"} -> "depth_anything"
      [] fn = "generate_sam2_segment"                      -> "sam2"
      [] fn = "generate_video"                             -> "wan_t2v"
      [] fn = "generate_svi_video"                         -> "svi"
      [] fn = "generate_flux_image"                        -> "flux_schnell"
      [] fn = "generate_sd35_image"                        -> "sd35_large"
      [] fn = "generate_ltx_video"                         -> "ltx_video"
      [] fn = "director_edit"                              -> "qwen_vl"
      [] OTHER                                             -> None

\* The family of the operation a handler serves.
OperationFamily(fn) ==
    FamilyOf[HandlerModel(fn)]

\* The last two jobs were operations of two different families and both
\* returned success.
TwoFamiliesInARow ==
    /\ Len(history) >= 2
    /\ history[Len(history) - 1].success
    /\ history[Len(history)].success
    /\ OperationFamily(history[Len(history) - 1].kind) # NoFamily
    /\ OperationFamily(history[Len(history)].kind) # NoFamily
    /\ OperationFamily(history[Len(history) - 1].kind)
           # OperationFamily(history[Len(history)].kind)

\* C19: after two sequential dispatches that both return success, the first
\* an operation of family A and the second of another family B, every entry
\* resident in models and pipelines belongs to family B.
C19_OnlySecondFamilyResident ==
    TwoFamiliesInARow
        => \A k \in ResidentKeys(Mgr) :
               FamilyOf[k] = OperationFamily(history[Len(history)].kind)

\* ------------------------------------------- properties of inference failures

\* r is a failure envelope with error set, returned with the manager in the
\* state of `pre` and with entry `model` resident.
FailsKeeping(r, pre, model) ==
    /\ r.done
    /\ ~r.raised
    /\ r.out.success = FALSE
    /\ r.out.error.kind = "str"
    /\ Residency(r.m) = Residency(pre)
    /\ model \in ResidentKeys(r.m)

\* The jobs whose handler calls ensure_model and then the inference with no
\* await between the two.
TextJobs ==
    {<<OpStr(o), ParamsDict(TextFields)>> :
        o \in {"video_generate", "flux_generate", "sd35_generate", "ltx_generate"}}

\* C20: if the inference call fails after ensure_model succeeded inside a
\* handler, the envelope has success false with error set and the ensured
\* model is still resident, the manager being as ensure_model left it.  For
\* the handlers that ensure before any await the inference fails in the
\* same step; for rack_focus, generate_depth_anything and
\* generate_sam2_segment in the step after fetch_image; for the handlers
\* that ensure before fetch_image, ensure_model returned in an earlier step
\* and the step of the failing inference must find the pipeline it read
\* still resident and change nothing.
C20_ResidentAfterInferenceFailure ==
    /\ \A q \in TextJobs, t \in {"", "inference failed"} :
          FailsKeeping(
              process_job_async(Mgr, q[1], q[2], TRUE, FALSE, t, loads + 1),
              ensure_model(Mgr, HandlerModel(HandlerEntry(q[1]).handler), TRUE, loads + 1).m,
              HandlerModel(HandlerEntry(q[1]).handler))
    /\ \A j \in Jobs, t \in {"", "inference failed"} :
          (/\ jobs[j].pc = "fetch"
           /\ jobs[j].model = None
           /\ HandlerModel(jobs[j].fn) # None)
              => FailsKeeping(
                     after_fetch(Mgr, jobs[j], TRUE, TRUE, FALSE, t, loads + 1),
                     ensure_model(Mgr, HandlerModel(jobs[j].fn), TRUE, loads + 1).m,
                     HandlerModel(jobs[j].fn))
    /\ \A j \in Jobs, t \in {"", "inference failed"} :
          (/\ jobs[j].pc = "fetch"
           /\ jobs[j].model # None)
              => /\ FailsKeeping(
                        after_fetch(Mgr, jobs[j], TRUE, TRUE, FALSE, t, loads + 1),
                        Mgr, jobs[j].model)
                 /\ Get(pipelines, jobs[j].model) = jobs[j].pipe

\* ------------------------------------------------- properties of the envelope

\* r is a success envelope whose output is the inline base64 data URI.
ReturnsInline(r) ==
    /\ r.done
    /\ ~r.raised
    /\ r.out.success = TRUE
    /\ r.out.error = NoError
    /\ r.out.output_url = "data_uri"

\* C21: if the upload to storage fails (or storage is not configured) after
\* the artifact was computed, the job still returns success true and the
\* envelope carries the artifact as the inline base64 data URI instead of a
\* storage URL: this holds of every job waiting for upload_to_storage, and
\* every envelope returned with the data URI says success.
C21_StorageFailureDegradesToInline ==
    /\ \A j \in Jobs :
          jobs[j].pc = "upload" => ReturnsInline(after_upload(Mgr, jobs[j], FALSE))
    /\ response.envelope.output_url \notin {"None", "url"}
          => /\ response.envelope.output_url = "data_uri"
             /\ response.envelope.success = TRUE

\* C21 witness: a job whose upload failed returned success with the data URI.
C21_Witness ==
    /\ response.envelope.success = TRUE
    /\ response.envelope.output_url = "data_uri"
    /\ response.envelope.keys = ProcessingResponseKeys

\* ------------------------------------------------ properties of a job's course

\* The moves of a coroutine's position in one step: a job is received and
\* runs (validated, handler called) to an await or to its end; a handler
\* resumes from fetch_image and goes on to upload_to_storage or ends; a
\* handler resumes from upload_to_storage and ends.  No move leads back.
AllowedMoves ==
    {<<"idle", "idle">>, <<"idle", "fetch">>, <<"idle", "upload">>,
     <<"fetch", "fetch">>, <<"fetch", "upload">>, <<"fetch", "idle">>,
     <<"upload", "upload">>, <<"upload", "idle">>}

\* A job reaches its end in this step: a suspended coroutine returns, or a
\* job is received and ends without suspending.
JobCompletes ==
    \/ \E j \in Jobs : jobs[j].pc # "idle" /\ jobs'[j].pc = "idle"
    \/ dispatched' # dispatched /\ jobs' = jobs

\* C22: each job moves only forward, Received, Validated, Executing,
\* Completed, without a step back or a second handler call; it completes
\* once, and its completion produces exactly one envelope, success or
\* failure: a step in which a job completes records an envelope, and no
\* other step records one.
C22_OneCompletionOneEnvelope ==
    [][/\ \A j \in Jobs : <<jobs[j].pc, jobs'[j].pc>> \in AllowedMoves
       /\ Cardinality({j \in Jobs : jobs'[j] # jobs[j]}) <= 1
       /\ JobCompletes => /\ ~response'.raised
                          /\ response'.envelope.keys # {}
       /\ ~JobCompletes => response' = response]_vars

\* C23: with every collaborator call eventually returning or raising, every
\* dispatched job eventually completes with an envelope, under any
\* interleaving and whatever failed before: a job in flight eventually
\* leaves its slot, and a job that ends, on arrival or later, ends with an
\* envelope.
C23_EveryJobCompletesWithEnvelope ==
    /\ \A j \in Jobs : (jobs[j].pc # "idle") ~> (jobs[j].pc = "idle")
    /\ [][JobCompletes => (~response'.raised /\ response'.envelope.keys # {})]_vars

\* ----------------------------------------- properties of the manager's frame

\* The states one call of a ModelManager method can leave: none called,
\* clear_vram, or ensure_model of a catalog name with its loader succeeding
\* or failing.
ManagerMethodOutcomes ==
    {Residency(Mgr), Residency(clear_vram(Mgr))}
        \cup {Residency(ensure_model(Mgr, n, ok, loads + 1).m) :
                 n \in Catalog, ok \in BOOLEAN}

\* C24: entries of models and pipelines are added, replaced or removed only
\* inside ModelManager's own methods: whatever a step of a job does to
\* models, pipelines and current_model is what ensure_model or clear_vram
\* does to them.
C24_OnlyManagerMethodsWrite ==
    [][[models |-> models', pipelines |-> pipelines', current_model |-> current_model']
           \in ManagerMethodOutcomes]_vars

\* --------------------------------------------- properties of family resolution

\* The last call was a successful ensure_model of an id of family "other"
\* while another id of family "other" was current.
OtherAfterOther ==
    /\ last.op = "ensure_model"
    /\ ~last.raised
    /\ last.pre.current_model # None
    /\ last.pre.current_model # last.name
    /\ FamilyOf[last.pre.current_model] = "other"
    /\ FamilyOf[last.name] = "other"

\* C25: when a model of the catch-all family "other" is current and
\* ensure_model is called with a different id that is also "other", the
\* call takes the eviction branch (clear_vram runs) before it loads.
C25_OtherEvictsOther ==
    OtherAfterOther
        => /\ SwitchingFamilies(last.pre, last.name)
           /\ last.loaded

\* The families in the order the claim gives for the table.
TableOrder ==
    <<"depth", "focus", "edit", "video", "segment", "image">>

\* Family number n of TableOrder has a keyword that occurs in the
\* lower-cased id.
HasKeyword(n, chars) ==
    \E i \in 1..Len(families) :
        /\ families[i].family = TableOrder[n]
        /\ \E k \in 1..Len(families[i].models) :
               IsSubstring(families[i].models[k], lower(chars))

\* C26: _get_model_family(id) returns the first family, in the order depth,
\* focus, edit, video, segment, image, with a keyword that is a substring
\* of the lower-cased id; "other" when no keyword matches; None exactly for
\* an empty or missing id.  An id matching several families resolves to
\* the earliest.
C26_FirstFamilyInTableOrder ==
    returned.fn = "_get_model_family" =>
        /\ [i \in 1..Len(families) |-> families[i].family] = TableOrder
        /\ returned.ret = NoFamily
              <=> (returned.arg.kind = "None" \/ returned.arg.chars = <<>>)
        /\ returned.ret # NoFamily =>
              /\ returned.ret = "other"
                    <=> \A n \in 1..Len(TableOrder) : ~HasKeyword(n, returned.arg.chars)
              /\ \A n \in 1..Len(TableOrder) :
                    returned.ret = TableOrder[n]
                        <=> /\ HasKeyword(n, returned.arg.chars)
                            /\ \A k \in 1..(n - 1) : ~HasKeyword(k, returned.arg.chars)

\* C26 witness: an id with keywords of two families, in upper case, was
\* resolved to the earlier family.
C26_Witness ==
    /\ returned.fn = "_get_model_family"
    /\ returned.arg.chars # lower(returned.arg.chars)
    /\ \E n, k \in 1..Len(TableOrder) :
          /\ n < k
          /\ HasKeyword(n, returned.arg.chars)
          /\ HasKeyword(k, returned.arg.chars)
          /\ returned.ret = TableOrder[n]

\* The jobs for a registered operation.
RegisteredJobs ==
    {q \in JobInputs : q[1].kind = "str" /\ InHandlers(q[1])}

\* r, if it is the end of the job, is an envelope with the fields of
\* ProcessingResponse, and with diagnostic detail in metadata if it is a
\* failure.
SameShape(r) ==
    r.done =>
        /\ ~r.raised
        /\ r.out.keys = ProcessingResponseKeys
        /\ r.out.success = FALSE => r.out.metadata # "None"

\* C27: every envelope process_job_async returns for a registered
\* operation, on success and on every failure path, has the fields success,
\* output_url, output_base64, processing_time_ms, metadata, error, with the
\* diagnostic detail of a failure under metadata: this holds of every such
\* job on arrival and of every handler resumed from an await.
C27_SameShapeOnEveryPath ==
    /\ \A q \in RegisteredJobs, c \in Collaborators :
          SameShape(process_job_async(Mgr, q[1], q[2], c.loadOk, c.inferOk, c.msg,
                                      loads + 1))
    /\ \A j \in Jobs, c \in Collaborators :
          jobs[j].pc = "fetch"
              => SameShape(after_fetch(Mgr, jobs[j], c.fetchOk, c.loadOk, c.inferOk,
                                       c.msg, loads + 1))
    /\ \A j \in Jobs, storageOk \in BOOLEAN :
          jobs[j].pc = "upload" => SameShape(after_upload(Mgr, jobs[j], storageOk))

\* ------------------------------------------------ properties of the read-outs

\* C28: get_vram_usage leaves models, pipelines and current_model as they
\* were (and evicts nothing), in every state, and returns total =
\* allocated = cached = 0 when no accelerator is present.
C28_VramUsageReadOnly ==
    /\ \A cuda \in BOOLEAN, device \in DeviceStats :
          get_vram_usage(Mgr, cuda, device).m = Mgr
    /\ \A device \in DeviceStats :
          get_vram_usage(Mgr, FALSE, device).ret
              = [total |-> 0, allocated |-> 0, cached |-> 0]
    /\ last.op = "get_vram_usage"
          => /\ Residency(Mgr) = last.pre
             /\ returned.fn = "get_vram_usage"
             /\ ~returned.arg.cuda
                    => returned.ret = [total |-> 0, allocated |-> 0, cached |-> 0]

\* C28 witness: get_vram_usage was called without an accelerator on a
\* manager holding a model, and returned zeros.
C28_Witness ==
    /\ last.op = "get_vram_usage"
    /\ ~returned.arg.cuda
    /\ returned.ret.total = 0
    /\ ResidentKeys(Mgr) # {}
    /\ current_model # None

\* C29: once the cleanup of lifespan has run, models and pipelines are empty
\* and current_model is None, whatever was resident before.
C29_ShutdownReleasesResidency ==
    ~Serving => Residency(Mgr) = EmptyResidency

\* C29 witness: the service shut down while it held two entries and a
\* current model, and holds nothing now.
C29_Witness ==
    /\ ~Serving
    /\ Cardinality(ResidentKeys(last.pre)) = 2
    /\ last.pre.current_model # None
    /\ ResidentKeys(Mgr) = {}

\* C30: after any sequence of dispatched jobs, interleaved at their awaits,
\* succeeding or failing, current_model is None or a key of models or
\* pipelines.
C30_CurrentModelIsResident ==
    current_model # None => current_model \in ResidentKeys(Mgr)

\* C30 witness: two jobs were dispatched, the last one to end failed, and a
\* model is current and resident.
C30_Witness ==
    /\ dispatched = MaxJobs
    /\ \A j \in Jobs : jobs[j].pc = "idle"
    /\ response.envelope.keys = ProcessingResponseKeys
    /\ response.envelope.success = FALSE
    /\ current_model # None
    /\ current_model \in ResidentKeys(Mgr)
    /\ \E h \in Stamps : evicted[h] > 0

\* ------------------------------------------------------------------ C31
\* The last call was ensure_model(id) for an id of the family of the model
\* that was current before it.
SameFamilyEnsure ==
    /\ last.op = "ensure_model"
    /\ last.pre.current_model # None
    /\ FamilyOf[last.name] = FamilyOf[last.pre.current_model]

\* Every key resident in pre is resident in m with the same object.
KeepsEntries(pre, m) ==
    /\ \A k \in DOMAIN pre.models :
           k \in DOMAIN m.models /\ m.models[k] = pre.models[k]
    /\ \A k \in DOMAIN pre.pipelines :
           k \in DOMAIN m.pipelines /\ m.pipelines[k] = pre.pipelines[k]

\* C31 (as claimed): ensure_model(id) for an id of the family of
\* current_model removes and replaces no resident entry: every key resident
\* before the call maps to the same object after it.
C31_SameFamilyKeepsEntries ==
    SameFamilyEnsure => KeepsEntries(last.pre, Mgr)

\* ------------------------------------------------------------------ C32
\* The model choices the two handlers do not support.
UnsupportedDepthModels ==
    DepthModels \ {"depth_anything", "midas"}

UnsupportedFluxModels ==
    FluxModels \ {"schnell", "dev"}

\* r is a failure envelope of ProcessingResponse produced without a load
\* and without any change to the manager m.
RejectedInHandler(r, m) ==
    /\ r.done /\ ~r.raised
    /\ r.out.keys = ProcessingResponseKeys
    /\ r.out.success = FALSE
    /\ r.out.error.kind = "str"
    /\ r.used = 0
    /\ r.m = m

\* C32: a request that validates but names an unsupported model
\* (estimate_depth with a model other than depth_anything or midas,
\* generate_flux_image with a model other than schnell or dev) gets a
\* failure envelope and leaves models, pipelines and current_model as they
\* were: ensure_model is not called.  This holds of the request just
\* answered, and of every such request that could arrive next, over HTTP or
\* as a job, whatever the collaborators would do.
C32_UnsupportedModelRejectedBeforeEnsure ==
    /\ (\/ last.op = "estimate_depth" /\ last.name \in UnsupportedDepthModels
        \/ last.op = "generate_flux_image" /\ last.name \in UnsupportedFluxModels)
          => /\ Residency(Mgr) = last.pre
             /\ ~last.loaded
             /\ response.envelope.keys = ProcessingResponseKeys
             /\ response.envelope.success = FALSE
    /\ \A c \in JobCollaborators :
          /\ \A model \in UnsupportedDepthModels :
                RejectedInHandler(estimate_depth(Mgr, model, TRUE, c, loads + 1), Mgr)
          /\ \A model \in UnsupportedFluxModels :
                /\ RejectedInHandler(
                       post_image_flux(Mgr, ParamsDict(FluxFields(model)), c, loads + 1), Mgr)
                /\ \A o \in {"flux_generate", "flux_schnell", "flux_dev", "image_flux"} :
                      /\ Validates("FluxImageRequest", ParamsDict(FluxFields(model)))
                      /\ RejectedInHandler(
                             run_job(Mgr, OpStr(o), ParamsDict(FluxFields(model)), c, loads + 1),
                             Mgr)

\* C32 witness: with models resident and one of them current, a request to
\* estimate_depth for an unsupported model was answered with a failure.
C32_Witness ==
    /\ last.op = "estimate_depth"
    /\ last.name \in UnsupportedDepthModels
    /\ last.pre.current_model # None
    /\ ResidentKeys(last.pre) # {}
    /\ Residency(Mgr) = last.pre
    /\ response.envelope.success = FALSE
    /\ response.envelope.error.text = "Unknown depth model"

\* ------------------------------------------------------------------ C33
\* The handlers that use no model.
ModelFreeHandlers ==
    {"lens_character", "rescue_focus", "director_edit"}

\* The jobs whose operation HANDLERS maps to one of them.
ModelFreeJobs ==
    {q \in RegisteredJobs : HandlerEntry(q[1]).handler \in ModelFreeHandlers}

\* The step with result r left the manager m as it was and loaded nothing.
LeavesManager(r, m) ==
    /\ r.m = m
    /\ r.used = 0

\* r, the start of a job, left the manager m alone if it called one of the
\* three handlers.
StartsModelFree(r, m) ==
    r.fn \in ModelFreeHandlers => LeavesManager(r, m)

FirstAlias(o) ==
    LET at(x) == CHOOSE i \in 1..Len(HANDLERS) : HANDLERS[i].operation = x
        same(i, k) == /\ HANDLERS[i].handler = HANDLERS[k].handler
                      /\ HANDLERS[i].request_model = HANDLERS[k].request_model
    IN  HANDLERS[CHOOSE i \in 1..Len(HANDLERS) :
                    /\ same(i, at(o))
                    /\ \A k \in 1..(i - 1) : ~same(k, at(o))].operation

\* The jobs of AliasJobs under a name that is not the first of its pair,
\* each with the job under the first name and the same request.
AliasPairs ==
    {<<q[1], OpStr(FirstAlias(q[1].value)), q[2]>> :
        q \in {p \in AliasJobs : FirstAlias(p[1].value) # p[1].value}}

FluxOperations ==
    {"flux_generate", "flux_schnell", "flux_dev", "image_flux"}

\* C34: operation names with the same (handler, schema) pair in HANDLERS
\* are indistinguishable: in every reachable residency state in which a job
\* can still arrive, for every request and every behaviour of the
\* collaborators, a job under any name leaves the manager as, and returns
\* the envelope that, the job under the first name of its pair does; and a
\* successful job under any of the four FLUX names has made
\* flux_<request.model> current, whatever its name.
C34_AliasesIndistinguishable ==
    /\ dispatched < MaxJobs =>
          \A a \in AliasPairs, c \in AliasCollaborators :
              run_job(Mgr, a[1], a[3], c, loads + 1) = run_job(Mgr, a[2], a[3], c, loads + 1)
    /\ (last.op \in FluxOperations /\ response.envelope.success)
          => /\ current_model = Concat("flux_", last.name)
             /\ current_model \in DOMAIN pipelines

\* C34 witness: a job named flux_dev whose request left model at its default
\* succeeded, and flux_schnell is what it made current, in place of a model
\* of another family.
C34_Witness ==
    /\ last.op = "flux_dev"
    /\ last.name = "schnell"
    /\ response.envelope.success
    /\ current_model = "flux_schnell"
    /\ last.pre.current_model # None
    /\ FamilyOf[last.pre.current_model] # "image"

\* ------------------------------------------------------------------ C35
\* The catalog id whose loader records key k.
LoaderOf(k) ==
    CHOOSE id \in AvailableIds : k \in LoaderKeys(id)

\* The family the catalog lists for id.
ListedFamily(id) ==
    AvailableModels[CHOOSE i \in 1..Len(AvailableModels) : AvailableModels[i].id = id].family

\* Every key a loader of a catalog id records.
RecordedKeys ==
    UNION {LoaderKeys(id) : id \in AvailableIds}

\* For each recorded key, the family the catalog lists for its loader's id.
ListedFamilyOfKey ==
    [k \in RecordedKeys |-> ListedFamily(LoaderOf(k))]

\* The catalog entries agree with _get_model_family and _load_model, and
\* so does every recorded key.
CatalogEntriesAgree ==
    /\ ListModelsAvailable = AvailableModels
    /\ \A i \in 1..Len(AvailableModels) :
          /\ _get_model_family(AvailableModels[i].id) = AvailableModels[i].family
          /\ AvailableModels[i].id \in LoaderKeys(AvailableModels[i].id)
    /\ \A k \in RecordedKeys : _get_model_family(k) = ListedFamilyOfKey[k]

\* C35: for every id in the catalog of the models operation (and of GET
\* /models) the family listed equals _get_model_family(id) and _load_model
\* has a branch that records id; every key a loader records, such as
\* midas_processor, has the family of the loader's id; and every call of
\* _get_model_family made with a catalog id or a resident key returned the
\* listed family.
C35_CatalogAgreesWithFamilies ==
    /\ CatalogEntriesAgree
    /\ ResidentKeys(Mgr) \subseteq RecordedKeys
    /\ returned.fn = "_get_model_family" =>
          \E k \in RecordedKeys :
              /\ returned.arg = IdStr(Chars[k])
              /\ returned.ret = ListedFamilyOfKey[k]

\* C35 witness: midas was loaded, and _get_model_family called with the
\* resident key midas_processor returned depth.
C35_Witness ==
    /\ "midas_processor" \in DOMAIN models
    /\ returned.fn = "_get_model_family"
    /\ returned.arg = IdStr(Chars["midas_processor"])
    /\ returned.ret = "depth"
    /\ ListedFamily("midas") = "depth"

\* ------------------------------------------------------------------ C36
\* C36 (as claimed): when the request of a successful generation job
\* supplied an integer seed, 0 included, the generator was seeded with that
\* seed and the metadata reports it; the reported seed differs from the
\* given one only when none was given.
C36_GivenSeedIsUsedAndReported ==
    (returned.fn # "none" /\ returned.success) =>
        /\ returned.arg.kind = "int" =>
              /\ returned.ret.generator = returned.arg
              /\ returned.ret.seed = returned.arg
        /\ returned.ret.seed # returned.arg => returned.arg.kind = "None"

\* ------------------------------------------------------------------ C37
\* y is x rounded down to a multiple of 8.
RoundedDownTo8(x, y) ==
    /\ y % 8 = 0
    /\ y <= x
    /\ x - y < 8

\* y lies within the schema's bounds for the field.
WithinFluxBounds(name, y) ==
    /\ FluxBound(name).lo <= y
    /\ y <= FluxBound(name).hi

\* C37: for every schema-valid request that reaches the pipeline call of
\* generate_flux_image, the step count passed is min(num_inference_steps, 4)
\* for schnell and num_inference_steps for dev, and the width and height
\* passed are the requested values rounded down to a multiple of 8 and lie
\* within 256..2048.
C37_FluxStepsAndDimensions ==
    returned.fn = "generate_flux_image" =>
        /\ returned.arg.fields.model = "schnell" =>
              /\ returned.ret.num_steps * 100 <= returned.arg.fields.num_inference_steps
              /\ returned.ret.num_steps <= 4
              /\ \/ returned.ret.num_steps = 4
                 \/ returned.ret.num_steps * 100 = returned.arg.fields.num_inference_steps
        /\ returned.arg.fields.model = "dev" =>
              returned.ret.num_steps * 100 = returned.arg.fields.num_inference_steps
        /\ RoundedDownTo8(returned.arg.fields.width \div 100, returned.ret.width)
        /\ RoundedDownTo8(returned.arg.fields.height \div 100, returned.ret.height)
        /\ WithinFluxBounds("width", returned.ret.width)
        /\ WithinFluxBounds("height", returned.ret.height)
        /\ FluxBound("width") = [lo |-> 256, hi |-> 2048]
        /\ FluxBound("height") = [lo |-> 256, hi |-> 2048]

\* C37 witness: a schnell request for 50 steps at 2047 x 1023 was passed on
\* as 4 steps at 2040 x 1016.
C37_Witness ==
    /\ returned.fn = "generate_flux_image"
    /\ returned.arg.fields.model = "schnell"
    /\ returned.arg.fields.num_inference_steps = 5000
    /\ returned.arg.fields.width = 204700
    /\ returned.arg.fields.height = 102300
    /\ returned.ret = [num_steps |-> 4, width |-> 2040, height |-> 1016]

\* ------------------------------------------------------------------ C38
\* The places of the entries with a supported suffix, written without
\* lower-casing: .jpg and .PNG are the supported ones among Suffixes.
SupportedPlaces(entries) ==
    {i \in 1..Len(entries) :
        entries[i].suffix \in { <<".","j","p","g">>, <<".","P","N","G">> }}

\* seq lists exactly the places of set, each once, in increasing order.
ListsInOrder(seq, set) ==
    /\ {seq[i] : i \in 1..Len(seq)} = set
    /\ \A i, k \in 1..Len(seq) : i < k => seq[i] < seq[k]

\* C38: in process_folder a failure on one image file is contained: once
\* the loop is reached, every supported file of the input directory is
\* processed, in order, whichever of them fail, every one that does not
\* fail is saved, and the function returns normally; and when the rembg
\* import fails or the input directory does not exist the function returns
\* with no output directory created and no file written.
C38_FailureContainedAndEarlyReturn ==
    folder.pc = "returned" =>
        /\ folder.made_dir =>
              /\ ~folder.raised
              /\ ListsInOrder(folder.attempted, SupportedPlaces(folder.entries))
              /\ ListsInOrder(folder.saved,
                              {i \in SupportedPlaces(folder.entries) : ~folder.entries[i].fails})
        /\ (~folder.importOk \/ ~folder.exists) =>
              /\ ~folder.raised
              /\ ~folder.made_dir
              /\ folder.attempted = <<>>
              /\ folder.saved = <<>>
        /\ (folder.importOk /\ folder.exists /\ ~folder.raised) => folder.made_dir

\* C38 witness: of three image files the second failed, and the first and
\* the third were saved.
C38_Witness ==
    /\ folder.pc = "returned"
    /\ ~folder.raised
    /\ Len(folder.entries) = 3
    /\ \A i \in 1..3 : IsSupported(folder.entries[i])
    /\ folder.entries[2].fails
    /\ folder.attempted = <<1, 2, 3>>
    /\ folder.saved = <<1, 3>>

====
